---- MODULE Spec2Model ----
(***************************************************************************)
(* Session and command-correlation layer of shimmy_cloud_agents:           *)
(*   server.py                 Communicate (the duplex session handler),    *)
(*                             process_audio_and_respond                    *)
(*   tools/grpc_context_manager.py   registry lookup, pending-request table *)
(*   tools/robot_commands.py   the command tools (send / send_and_await)    *)
(* Every asyncio suspension point (await) ends an action; the code between  *)
(* two suspension points runs atomically on the single event loop.          *)
(***************************************************************************)
EXTENDS Integers, Sequences, FiniteSets, TLC

\* ------------------------------------------------------------------ bounds
Robots == {"r1", "r2"}            \* robot_id of each accepted stream
Callers == {"t1", "t2"}           \* tool invocations (one future each)
CmdIds == {"cmd_a", "cmd_b"}      \* values uuid4 can hand out
Msgs == {"m1", "m2"}              \* acknowledgement texts
MaxAudioTasks == 1                \* audio tasks spawned, all connections
MaxOutbound == 1                  \* frames on a stream when a sentinel arrives
MaxFailures == 6                  \* consecutive gRPC failures of the mock client
MaxQueued == 2                    \* items on the mock client's outgoing queue
MaxStale == 1                     \* generators of earlier streams still polling

\* ------------------------------------------------------- program constants
INTERACTIVE == "interactive_shell_command"
StrayId == "cmd_999"
NoValue == "-"
NoSession == ""
ClientSession == "s1"
ToolSession == "adk_session"

ToolKinds ==
    {"get_power_status", "move", "set_led", "capture_image",
     "set_voice_volume", "find_object", "cancel_movement"}
AckIds == CmdIds \cup {StrayId, INTERACTIVE}
AudioData == {<< >>, <<1, 2>>}

\* The default session id of a connection, server.py line 279.
session_id_for_this_connection(r) == "grpc_conn_session_" \o r

AudioFrame(s, d) ==
    [type |-> "audio_chunk", session |-> s, data |-> d, cmd |-> NoValue, msg |-> NoValue]
AckFrame(s, c, m) ==
    [type |-> "command_ack", session |-> s, data |-> << >>, cmd |-> c, msg |-> m]
OtherFrame(ty) ==
    [type |-> ty, session |-> NoSession, data |-> << >>, cmd |-> NoValue, msg |-> NoValue]

\* Robot -> cloud frames: RobotToCloudMessage with its oneof tags.
Frames ==
    {AudioFrame(NoSession, d) : d \in AudioData}
    \cup {AudioFrame(ClientSession, <<1>>)}
    \cup {AckFrame(NoSession, c, m) : c \in CmdIds, m \in Msgs}
    \cup {AckFrame(NoSession, StrayId, "m1")}
    \cup {AckFrame(ClientSession, INTERACTIVE, "m1")}
    \cup {OtherFrame("other_status"), OtherFrame("unknown")}

VARIABLES
    wait_for_impl,           \* which asyncio.wait_for the interpreter ships
    active_robot_streams,    \* server.py: robot_id -> context (the keys)
    robot_audio_buffers,     \* server.py: robot_id -> bytearray
    pending_power_requests,  \* grpc_context_manager: command_id -> future
    future,                  \* the asyncio.Future each tool call creates
    handler,                 \* state of Communicate for each connection
    rpc_done,                \* context.done() of each connection
    cleanup_task,            \* the cleanup() task of each connection
    outbound,                \* frames written on each connection's stream
    sentinel_reply,          \* the response Communicate is writing
    audio_tasks,             \* spawned process_audio_and_respond tasks
    tool,                    \* each tool invocation: pc, inputs, result
    timer,                   \* the timeout handle of each wait_for
    used_ids,                \* command ids uuid4 has handed out
    hist,                    \* per command id: what resolve calls have done
    acked,                   \* command ids of the acknowledgements received
    received,                \* per connection: every audio byte received, in order
    cancel_logged,           \* per connection: the drain wait logged its cancellation
    client_pc,               \* mock client: where run_robot_client stands
    shutdown_event,          \* mock client: the global asyncio.Event
    retry_count,             \* mock client: run_robot_client's local counter
    outgoing_message_queue,  \* mock client: the asyncio.Queue shared by all connections
    message_generator,       \* mock client: generate_messages of the current connection
    stale_generators,        \* mock client: generators of earlier connections still polling
    consecutive_failures     \* mock client: gRPC failures since the last server message

\* the state of the cloud server and its tools
server_vars ==
    <<wait_for_impl, active_robot_streams, robot_audio_buffers,
      pending_power_requests, future, handler, rpc_done, cleanup_task,
      outbound, sentinel_reply, audio_tasks,
      tool, timer, used_ids, hist, acked, received, cancel_logged>>

\* the state of the mock robot client (mock_robot_client.py)
client_vars ==
    <<client_pc, shutdown_event, retry_count, outgoing_message_queue,
      message_generator, stale_generators, consecutive_failures>>

vars == <<server_vars, client_vars>>

\* ------------------------------------------------------------ asyncio.Future
NewFuture == [state |-> "pending", value |-> NoValue]
NoFuture == [state |-> "none", value |-> NoValue]
FutureDone(f) == f.state \in {"result", "cancelled"}
SetResult(f, v) == [state |-> "result", value |-> v]
CancelFuture(f) == IF FutureDone(f) THEN f ELSE [state |-> "cancelled", value |-> NoValue]

\* --------------------------------------------------- grpc_context_manager.py
\* Variant: the lookup hands back a context without consulting the map.
lookup_without_map(streams, robot_id) == robot_id

\* get_grpc_context_by_robot_id: None for an empty map or a missing key.
get_grpc_context_by_robot_id(streams, robot_id) ==
    IF streams = {} THEN "None"
    ELSE IF robot_id \in streams THEN robot_id ELSE "None"

\* Variant: the future is never entered in the table.
add_nothing(table, command_id, fut_id) == table

\* add_pending_power_request: plain dict assignment.
add_pending_power_request(table, command_id, fut_id) ==
    [c \in (DOMAIN table) \cup {command_id} |->
        IF c = command_id THEN fut_id ELSE table[c]]

\* Variant: dict.get in place of dict.pop, the entry stays.
TableGet(table, command_id) == table

\* dict.pop(command_id, None)
TablePop(table, command_id) ==
    [c \in (DOMAIN table) \ {command_id} |-> table[c]]

\* Variant: dict.get and no done() test, every call on a known id sets the
\* result again.
resolve_every_time(table, futs, command_id, result) ==
    IF command_id \in DOMAIN table
    THEN [table |-> table,
          futs  |-> [futs EXCEPT ![table[command_id]] =
                        [state |-> "result", value |-> result]],
          ret   |-> TRUE, popped |-> FALSE, set |-> TRUE]
    ELSE [table |-> table, futs |-> futs, ret |-> FALSE,
          popped |-> FALSE, set |-> FALSE]

\* Variant: no done() test, a done future is given the result all the same
\* and False is returned for it.
resolve_done_too(table, futs, command_id, result) ==
    IF command_id \in DOMAIN table
    THEN [table |-> TablePop(table, command_id),
          futs  |-> [futs EXCEPT ![table[command_id]] =
                        [state |-> "result", value |-> result]],
          ret   |-> ~FutureDone(futs[table[command_id]]),
          popped |-> TRUE, set |-> TRUE]
    ELSE [table |-> table, futs |-> futs, ret |-> FALSE,
          popped |-> FALSE, set |-> FALSE]

\* resolve_pending_power_request: the table, the futures and the return value
\* after the call.  `futs` maps a future's id to the future.
resolve_pending_power_request(table, futs, command_id, result) ==
    IF command_id \in DOMAIN table
    THEN LET f == table[command_id] IN
         IF ~FutureDone(futs[f])
         THEN [table |-> TablePop(table, command_id),
               futs  |-> [futs EXCEPT ![f] = SetResult(futs[f], result)],
               ret   |-> TRUE, popped |-> TRUE, set |-> TRUE]
         ELSE [table |-> TablePop(table, command_id),
               futs  |-> futs,
               ret   |-> FALSE, popped |-> TRUE, set |-> FALSE]
    ELSE [table |-> table, futs |-> futs, ret |-> FALSE,
          popped |-> FALSE, set |-> FALSE]

\* get_pending_power_request
get_pending_power_request(table, command_id) ==
    IF command_id \in DOMAIN table THEN table[command_id] ELSE "None"

\* History of the resolve calls on command id c: how many set a result,
\* popped an entry, returned True.
HistAfter(h, c, r) ==
    IF c \in DOMAIN h
    THEN [h EXCEPT ![c] = [sets  |-> @.sets + (IF r.set THEN 1 ELSE 0),
                           pops  |-> @.pops + (IF r.popped THEN 1 ELSE 0),
                           trues |-> @.trues + (IF r.ret THEN 1 ELSE 0)]]
    ELSE h

IdleTool ==
    [pc |-> "idle", kind |-> "move", robot |-> NoValue, session |-> NoValue,
     cmd |-> NoValue, result |-> "-", value |-> NoValue]

Init ==
    /\ wait_for_impl \in {"waiter", "timeout_scope"}
    /\ active_robot_streams = {}
    /\ robot_audio_buffers = << >>
    /\ pending_power_requests = << >>
    /\ future = [t \in Callers |-> NoFuture]
    /\ handler = [r \in Robots |-> "NOT_CONNECTED"]
    /\ rpc_done = [r \in Robots |-> FALSE]
    /\ cleanup_task = [r \in Robots |-> [state |-> "none", runs |-> 0]]
    /\ outbound = [r \in Robots |-> << >>]
    /\ sentinel_reply = [r \in Robots |-> NoValue]
    /\ audio_tasks = << >>
    /\ tool = [t \in Callers |-> IdleTool]
    /\ timer = [t \in Callers |-> "unset"]
    /\ used_ids = {}
    /\ acked = {}
    /\ received = [r \in Robots |-> << >>]
    /\ cancel_logged = [r \in Robots |-> FALSE]
    /\ client_pc = "loop"
    /\ shutdown_event = FALSE
    /\ retry_count = 0
    /\ outgoing_message_queue = << >>
    /\ message_generator = "none"
    /\ stale_generators = 0
    /\ consecutive_failures = 0
    /\ hist = [c \in CmdIds \cup {StrayId, INTERACTIVE} |-> [sets |-> 0, pops |-> 0, trues |-> 0]]


\* -------------------------------------------------- frames written to robots
TextResponse(session, by) ==
    [kind |-> "text_response", session |-> session, cmd |-> NoValue, by |-> by]
RobotCommand(session, command_id, by) ==
    [kind |-> "robot_command", session |-> session, cmd |-> command_id, by |-> by]

\* context.write: fails once the RPC is finished; a live stream may still
\* raise a transport error.
WriteOutcomes(r) == IF rpc_done[r] THEN {FALSE} ELSE BOOLEAN

\* The RPC of connection r terminates: the done callback registered at
\* server.py line 293 schedules the cleanup task.
RpcFinished(r) ==
    /\ rpc_done' = [rpc_done EXCEPT ![r] = TRUE]
    /\ cleanup_task' = [cleanup_task EXCEPT ![r].state = "scheduled"]

\* ------------------------------------------------- server.py: Communicate
\* Variant: the robot id is derived from the peer alone, so a peer that
\* connects again is registered under the id it had.
ConnectReusesId(r) ==
    /\ handler[r] \in {"NOT_CONNECTED", "CLOSED"}
    /\ handler' = [handler EXCEPT ![r] = "STREAMING"]
    /\ active_robot_streams' = active_robot_streams \cup {r}
    /\ robot_audio_buffers' =
          [x \in (DOMAIN robot_audio_buffers) \cup {r} |->
              IF x = r THEN << >> ELSE robot_audio_buffers[x]]
    /\ UNCHANGED <<wait_for_impl, pending_power_requests, future, rpc_done,
                   cleanup_task, outbound, sentinel_reply, audio_tasks, tool,
                   timer, used_ids, hist, acked, received, cancel_logged, client_vars>>

\* Variant: the stream is registered and its buffer is not created.
ConnectWithoutBuffer(r) ==
    /\ handler[r] = "NOT_CONNECTED"
    /\ handler' = [handler EXCEPT ![r] = "STREAMING"]
    /\ active_robot_streams' = active_robot_streams \cup {r}
    /\ UNCHANGED <<wait_for_impl, robot_audio_buffers, pending_power_requests,
                   future, rpc_done, cleanup_task, outbound, sentinel_reply,
                   audio_tasks, tool, timer, used_ids, hist, acked, received,
                   cancel_logged, client_vars>>

\* Lines 276-294: the stream is accepted and registered.
Connect(r) ==
    /\ handler[r] = "NOT_CONNECTED"
    /\ handler' = [handler EXCEPT ![r] = "STREAMING"]
    /\ active_robot_streams' = active_robot_streams \cup {r}
    /\ robot_audio_buffers' =
          [x \in (DOMAIN robot_audio_buffers) \cup {r} |->
              IF x = r THEN << >> ELSE robot_audio_buffers[x]]
    /\ UNCHANGED <<wait_for_impl, pending_power_requests, future, rpc_done,
                   cleanup_task, outbound,
                   sentinel_reply, audio_tasks, tool, timer, used_ids, hist, acked, received, cancel_logged, client_vars>>

\* Variant: the receive loop awaits process_audio_and_respond instead of
\* creating a task for it.
HandleAudioAwaitsTask(r, f) ==
    LET sid == IF f.session # NoSession THEN f.session
               ELSE session_id_for_this_connection(r)
        buf == robot_audio_buffers[r] \o f.data
    IN /\ IF Len(buf) > 0
          THEN /\ robot_audio_buffers' = [robot_audio_buffers EXCEPT ![r] = << >>]
               /\ audio_tasks' = Append(audio_tasks,
                     [robot |-> r, session |-> sid, data |-> buf,
                      pc |-> "spawned", ctx |-> "None"])
               /\ handler' = [handler EXCEPT ![r] = "AWAITING_AUDIO"]
          ELSE /\ robot_audio_buffers' = [robot_audio_buffers EXCEPT ![r] = buf]
               /\ UNCHANGED <<audio_tasks, handler>>
       /\ received' = [received EXCEPT ![r] = @ \o f.data]
       /\ UNCHANGED <<pending_power_requests, future, sentinel_reply, hist, acked>>

\* Variant: the buffer is flushed only once it holds three bytes.
HandleAudioFlushAtThreshold(r, f) ==
    LET sid == IF f.session # NoSession THEN f.session
               ELSE session_id_for_this_connection(r)
        buf == robot_audio_buffers[r] \o f.data
    IN /\ IF Len(buf) >= Len(<<1, 2, 3>>)
          THEN /\ robot_audio_buffers' = [robot_audio_buffers EXCEPT ![r] = << >>]
               /\ audio_tasks' = Append(audio_tasks,
                     [robot |-> r, session |-> sid, data |-> buf,
                      pc |-> "spawned", ctx |-> "None"])
          ELSE /\ robot_audio_buffers' = [robot_audio_buffers EXCEPT ![r] = buf]
               /\ UNCHANGED audio_tasks
       /\ received' = [received EXCEPT ![r] = @ \o f.data]
       /\ UNCHANGED <<pending_power_requests, future, handler, sentinel_reply, hist, acked>>

\* Variant: the buffer is handed on without being replaced by an empty one.
HandleAudioKeepsBuffer(r, f) ==
    LET sid == IF f.session # NoSession THEN f.session
               ELSE session_id_for_this_connection(r)
        buf == robot_audio_buffers[r] \o f.data
    IN /\ robot_audio_buffers' = [robot_audio_buffers EXCEPT ![r] = buf]
       /\ IF Len(buf) > 0
          THEN audio_tasks' = Append(audio_tasks,
                     [robot |-> r, session |-> sid, data |-> buf,
                      pc |-> "spawned", ctx |-> "None"])
          ELSE UNCHANGED audio_tasks
       /\ received' = [received EXCEPT ![r] = @ \o f.data]
       /\ UNCHANGED <<pending_power_requests, future, handler, sentinel_reply, hist, acked>>

\* Lines 307-321: an audio chunk is appended and, when any byte is present,
\* the buffer is swapped out and handed to a new task.
HandleAudio(r, f) ==
    LET sid == IF f.session # NoSession THEN f.session
               ELSE session_id_for_this_connection(r)
        buf == robot_audio_buffers[r] \o f.data
    IN /\ IF Len(buf) > 0
          THEN /\ robot_audio_buffers' = [robot_audio_buffers EXCEPT ![r] = << >>]
               /\ audio_tasks' = Append(audio_tasks,
                     [robot |-> r, session |-> sid, data |-> buf,
                      pc |-> "spawned", ctx |-> "None"])
          ELSE /\ robot_audio_buffers' = [robot_audio_buffers EXCEPT ![r] = buf]
               /\ UNCHANGED audio_tasks
       /\ received' = [received EXCEPT ![r] = @ \o f.data]
       /\ UNCHANGED <<pending_power_requests, future, handler, sentinel_reply, hist, acked>>

\* Variant: an acknowledgement is answered with the text response also when
\* it resolved a pending request.
HandleAckRespondsWhenResolved(r, f) ==
    LET sid == IF f.session # NoSession THEN f.session
               ELSE session_id_for_this_connection(r)
        res == resolve_pending_power_request(pending_power_requests, future,
                                             f.cmd, f.msg)
    IN /\ pending_power_requests' = res.table
       /\ future' = res.futs
       /\ hist' = HistAfter(hist, f.cmd, res)
       /\ acked' = acked \cup {f.cmd}
       /\ IF res.ret \/ f.cmd = INTERACTIVE
          THEN /\ handler' = [handler EXCEPT ![r] = "SENTINEL_WRITE"]
               /\ sentinel_reply' = [sentinel_reply EXCEPT ![r] = sid]
          ELSE UNCHANGED <<handler, sentinel_reply>>
       /\ UNCHANGED <<robot_audio_buffers, audio_tasks, received>>

\* Variant: the text response is sent for every unresolved acknowledgement,
\* whatever its command id.
HandleAckAlwaysResponds(r, f) ==
    LET sid == IF f.session # NoSession THEN f.session
               ELSE session_id_for_this_connection(r)
        res == resolve_pending_power_request(pending_power_requests, future,
                                             f.cmd, f.msg)
    IN /\ pending_power_requests' = res.table
       /\ future' = res.futs
       /\ hist' = HistAfter(hist, f.cmd, res)
       /\ acked' = acked \cup {f.cmd}
       /\ IF ~res.ret
          THEN /\ handler' = [handler EXCEPT ![r] = "SENTINEL_WRITE"]
               /\ sentinel_reply' = [sentinel_reply EXCEPT ![r] = sid]
          ELSE UNCHANGED <<handler, sentinel_reply>>
       /\ UNCHANGED <<robot_audio_buffers, audio_tasks, received>>

\* Lines 328-350: a command acknowledgement is offered to the pending table;
\* unresolved, the sentinel id gets a text response and any other id is dropped.
HandleAck(r, f) ==
    LET sid == IF f.session # NoSession THEN f.session
               ELSE session_id_for_this_connection(r)
        res == resolve_pending_power_request(pending_power_requests, future,
                                             f.cmd, f.msg)
    IN /\ pending_power_requests' = res.table
       /\ future' = res.futs
       /\ hist' = HistAfter(hist, f.cmd, res)
       /\ acked' = acked \cup {f.cmd}
       /\ IF ~res.ret /\ f.cmd = INTERACTIVE
          THEN /\ handler' = [handler EXCEPT ![r] = "SENTINEL_WRITE"]
               /\ sentinel_reply' = [sentinel_reply EXCEPT ![r] = sid]
          ELSE UNCHANGED <<handler, sentinel_reply>>
       /\ UNCHANGED <<robot_audio_buffers, audio_tasks, received>>

\* Variant: an unrecognised frame raises, which ends the receive loop.
HandleOtherRaises(r, f) ==
    /\ handler' = [handler EXCEPT ![r] = "CLOSED"]
    /\ UNCHANGED <<robot_audio_buffers, audio_tasks, pending_power_requests,
                   future, sentinel_reply, hist, acked, received>>

\* Lines 322-354 otherwise: other status updates and unknown tags are logged.
HandleOther(r, f) ==
    /\ UNCHANGED <<robot_audio_buffers, audio_tasks, pending_power_requests,
                   future, handler, sentinel_reply, hist, acked, received>>

\* Variant: the next frame is read while the response to the previous one
\* is still being written.
HandleFrameWhileWriting(r, f) ==
    /\ handler[r] \in {"STREAMING", "SENTINEL_WRITE"}
    /\ f.cmd \in CmdIds =>
          \E x \in Robots : \E i \in DOMAIN outbound[x] : outbound[x][i].cmd = f.cmd
    /\ f.type = "audio_chunk" /\ f.data # << >> => Len(audio_tasks) < MaxAudioTasks
    /\ f.cmd = INTERACTIVE => Len(outbound[r]) < MaxOutbound
    /\ CASE f.type = "audio_chunk" -> HandleAudio(r, f)
         [] f.type = "command_ack" -> HandleAck(r, f)
         [] OTHER -> HandleOther(r, f)
    /\ UNCHANGED <<wait_for_impl, active_robot_streams, rpc_done, cleanup_task,
                   outbound, tool, timer, used_ids, cancel_logged, client_vars>>

\* Lines 299-354: one iteration of `async for message in request_iterator`,
\* for the next frame f of the robot's request stream.  A robot
\* acknowledges a generated command id (uuid4, line 250 of robot_commands.py)
\* only after the command frame carrying it was written, or an id of its own.
HandleFrame(r, f) ==
    /\ handler[r] = "STREAMING"
    /\ f.cmd \in CmdIds =>
          \E x \in Robots : \E i \in DOMAIN outbound[x] : outbound[x][i].cmd = f.cmd
    /\ f.type = "audio_chunk" /\ f.data # << >> => Len(audio_tasks) < MaxAudioTasks
    /\ f.cmd = INTERACTIVE => Len(outbound[r]) < MaxOutbound
    /\ CASE f.type = "audio_chunk" -> HandleAudio(r, f)
         [] f.type = "command_ack" -> HandleAck(r, f)
         [] OTHER -> HandleOther(r, f)
    /\ UNCHANGED <<wait_for_impl, active_robot_streams, rpc_done, cleanup_task,
                   outbound, tool, timer, used_ids, cancel_logged, client_vars>>

\* Line 349: the awaited write of the sentinel's text response.  An exception
\* is caught at line 374 and the handler returns, ending the RPC.
SentinelWrite(r) ==
    /\ handler[r] = "SENTINEL_WRITE"
    /\ \E ok \in WriteOutcomes(r) :
          IF ok
          THEN /\ outbound' = [outbound EXCEPT
                     ![r] = Append(@, TextResponse(sentinel_reply[r], "handler"))]
               /\ handler' = [handler EXCEPT ![r] = "STREAMING"]
               /\ UNCHANGED <<rpc_done, cleanup_task>>
          ELSE /\ handler' = [handler EXCEPT ![r] = "CLOSED"]
               /\ RpcFinished(r)
               /\ UNCHANGED outbound
    /\ sentinel_reply' = [sentinel_reply EXCEPT ![r] = NoValue]
    /\ UNCHANGED <<wait_for_impl, active_robot_streams, robot_audio_buffers,
                   pending_power_requests, future, audio_tasks, tool, timer, used_ids, hist, acked, received, cancel_logged, client_vars>>

\* Variant: the handler returns as soon as the request stream is exhausted.
StreamExhaustedReturns(r) ==
    /\ handler[r] = "STREAMING"
    /\ handler' = [handler EXCEPT ![r] = "CLOSED"]
    /\ RpcFinished(r)
    /\ UNCHANGED <<wait_for_impl, active_robot_streams, robot_audio_buffers,
                   pending_power_requests, future, outbound, sentinel_reply,
                   audio_tasks, tool, timer, used_ids, hist, acked, received,
                   cancel_logged, client_vars>>

\* Lines 356-360: the robot ends its request stream (half-close), the
\* iterator is exhausted and the handler polls context.done().
StreamExhausted(r) ==
    /\ handler[r] = "STREAMING"
    /\ handler' = [handler EXCEPT ![r] = "DRAINING"]
    /\ UNCHANGED <<wait_for_impl, active_robot_streams, robot_audio_buffers,
                   pending_power_requests, future, rpc_done, cleanup_task,
                   outbound, sentinel_reply,
                   audio_tasks, tool, timer, used_ids, hist, acked, received, cancel_logged, client_vars>>

\* Variant: the handler also removes its entries itself when it exits, in
\* addition to the cleanup task of the done callback.
ReadErrorCleanupInFinally(r) ==
    /\ handler[r] = "STREAMING"
    /\ handler' = [handler EXCEPT ![r] = "CLOSED"]
    /\ rpc_done' = [rpc_done EXCEPT ![r] = TRUE]
    /\ active_robot_streams' = active_robot_streams \ {r}
    /\ robot_audio_buffers' =
          [x \in (DOMAIN robot_audio_buffers) \ {r} |-> robot_audio_buffers[x]]
    /\ cleanup_task' = [cleanup_task EXCEPT
          ![r] = [state |-> "scheduled", runs |-> @.runs + 1]]
    /\ UNCHANGED <<wait_for_impl, pending_power_requests, future, outbound,
                   sentinel_reply, audio_tasks, tool, timer, used_ids, hist,
                   acked, received, cancel_logged, client_vars>>

\* Lines 369-377: the request iterator raises (transport error); the
\* exception is logged and the handler returns.
ReadError(r) ==
    /\ handler[r] = "STREAMING"
    /\ handler' = [handler EXCEPT ![r] = "CLOSED"]
    /\ RpcFinished(r)
    /\ UNCHANGED <<wait_for_impl, active_robot_streams, robot_audio_buffers,
                   pending_power_requests, future, outbound, sentinel_reply, audio_tasks, tool, timer,
                   used_ids, hist, acked, received, cancel_logged, client_vars>>

\* Variant: the drain wait logs the CancelledError and does not raise it
\* again, so the handler goes on polling.
RpcTerminateSwallowsCancel(r) ==
    /\ handler[r] \in {"STREAMING", "SENTINEL_WRITE", "DRAINING"}
    /\ handler' = [handler EXCEPT
          ![r] = IF @ = "DRAINING" THEN "DRAINING" ELSE "CLOSED"]
    /\ RpcFinished(r)
    /\ sentinel_reply' = [sentinel_reply EXCEPT ![r] = NoValue]
    /\ cancel_logged' = [cancel_logged EXCEPT
          ![r] = @ \/ handler[r] = "DRAINING"]
    /\ UNCHANGED <<wait_for_impl, active_robot_streams, robot_audio_buffers,
                   pending_power_requests, future, outbound, audio_tasks, tool,
                   timer, used_ids, hist, acked, received, client_vars>>

\* Peer disconnect, client cancel or server stop: the RPC is finished and the
\* handler is cancelled at its suspension point: in the receive loop (lines
\* 299, 349) or in the drain wait (lines 360-366), where the CancelledError
\* is logged and raised again.
RpcTerminate(r) ==
    /\ handler[r] \in {"STREAMING", "SENTINEL_WRITE", "DRAINING"}
    /\ handler' = [handler EXCEPT ![r] = "CLOSED"]
    /\ RpcFinished(r)
    /\ sentinel_reply' = [sentinel_reply EXCEPT ![r] = NoValue]
    /\ cancel_logged' = [cancel_logged EXCEPT
          ![r] = @ \/ handler[r] = "DRAINING"]
    /\ UNCHANGED <<wait_for_impl, active_robot_streams, robot_audio_buffers,
                   pending_power_requests, future, outbound, audio_tasks, tool,
                   timer, used_ids, hist, acked, received, client_vars>>

\* Variant: cleanup empties the whole buffer map.
CleanupEveryBuffer(r) ==
    /\ cleanup_task[r].state = "scheduled"
    /\ active_robot_streams' = active_robot_streams \ {r}
    /\ robot_audio_buffers' = << >>
    /\ cleanup_task' = [cleanup_task EXCEPT
          ![r] = [state |-> "ran", runs |-> @.runs + 1]]
    /\ UNCHANGED <<wait_for_impl, pending_power_requests, future, handler,
                   rpc_done, outbound, sentinel_reply, audio_tasks, tool,
                   timer, used_ids, hist, acked, received, cancel_logged, client_vars>>

\* Variant: cleanup forgets the audio buffer.
CleanupRegistryOnly(r) ==
    /\ cleanup_task[r].state = "scheduled"
    /\ active_robot_streams' = active_robot_streams \ {r}
    /\ cleanup_task' = [cleanup_task EXCEPT
          ![r] = [state |-> "ran", runs |-> @.runs + 1]]
    /\ UNCHANGED <<wait_for_impl, robot_audio_buffers, pending_power_requests,
                   future, handler, rpc_done, outbound, sentinel_reply,
                   audio_tasks, tool, timer, used_ids, hist, acked, received, cancel_logged, client_vars>>

\* Lines 287-291: the cleanup task created by the done callback runs.
Cleanup(r) ==
    /\ cleanup_task[r].state = "scheduled"
    /\ active_robot_streams' = active_robot_streams \ {r}
    /\ robot_audio_buffers' =
          [x \in (DOMAIN robot_audio_buffers) \ {r} |-> robot_audio_buffers[x]]
    /\ cleanup_task' = [cleanup_task EXCEPT
          ![r] = [state |-> "ran", runs |-> @.runs + 1]]
    /\ UNCHANGED <<wait_for_impl, pending_power_requests, future, handler,
                   rpc_done, outbound,
                   sentinel_reply, audio_tasks, tool, timer, used_ids, hist, acked, received, cancel_logged, client_vars>>


\* ------------------------------------- server.py: process_audio_and_respond
\* Variant: the task does not look the registry up and goes on with the
\* context of the connection its audio arrived on.
AudioTaskStartWithoutLookup(i) ==
    /\ i \in DOMAIN audio_tasks
    /\ audio_tasks[i].pc = "spawned"
    /\ audio_tasks' = [audio_tasks EXCEPT
          ![i].ctx = audio_tasks[i].robot,
          ![i].pc = "processing"]
    /\ UNCHANGED <<wait_for_impl, active_robot_streams, robot_audio_buffers,
                   pending_power_requests, future, handler, rpc_done,
                   cleanup_task, outbound,
                   sentinel_reply, tool, timer, used_ids, hist, acked, received,
                   cancel_logged, client_vars>>

\* Variant: a task whose connection is gone takes any registered stream.
AudioTaskStartAnyStream(i) ==
    /\ i \in DOMAIN audio_tasks
    /\ audio_tasks[i].pc = "spawned"
    /\ LET grpc_context ==
              IF audio_tasks[i].robot \in active_robot_streams
              THEN audio_tasks[i].robot
              ELSE IF active_robot_streams # {}
              THEN CHOOSE x \in active_robot_streams : TRUE
              ELSE "None"
       IN audio_tasks' = [audio_tasks EXCEPT
              ![i].ctx = grpc_context,
              ![i].pc = IF grpc_context = "None" THEN "no_stream" ELSE "processing"]
    /\ UNCHANGED <<wait_for_impl, active_robot_streams, robot_audio_buffers,
                   pending_power_requests, future, handler, rpc_done,
                   cleanup_task, outbound,
                   sentinel_reply, tool, timer, used_ids, hist, acked, received,
                   cancel_logged, client_vars>>

\* Lines 110-115: the task looks its connection up when it starts running.
AudioTaskStart(i) ==
    /\ i \in DOMAIN audio_tasks
    /\ audio_tasks[i].pc = "spawned"
    /\ LET grpc_context ==
              IF audio_tasks[i].robot \in active_robot_streams
              THEN audio_tasks[i].robot ELSE "None"
       IN audio_tasks' = [audio_tasks EXCEPT
              ![i].ctx = grpc_context,
              ![i].pc = IF grpc_context = "None" THEN "no_stream" ELSE "processing"]
    /\ UNCHANGED <<wait_for_impl, active_robot_streams, robot_audio_buffers,
                   pending_power_requests, future, handler, rpc_done,
                   cleanup_task, outbound,
                   sentinel_reply, tool, timer, used_ids, hist, acked, received, cancel_logged, client_vars>>

\* Variant: no try/except around the write, the exception ends the task.
AudioTaskRespondUnguarded(i) ==
    /\ i \in DOMAIN audio_tasks
    /\ audio_tasks[i].pc = "processing"
    /\ \E ok \in WriteOutcomes(audio_tasks[i].ctx) :
          /\ outbound' = IF ok
                THEN [outbound EXCEPT ![audio_tasks[i].ctx] =
                        Append(@, TextResponse(audio_tasks[i].session, "audio"))]
                ELSE outbound
          /\ audio_tasks' = [audio_tasks EXCEPT
                ![i].pc = IF ok THEN "responded" ELSE "raised"]
    /\ UNCHANGED <<wait_for_impl, active_robot_streams, robot_audio_buffers,
                   pending_power_requests, future, handler, rpc_done,
                   cleanup_task, sentinel_reply,
                   tool, timer, used_ids, hist, acked, received, cancel_logged, client_vars>>

\* Variant: the response carries the connection-scoped session id whatever
\* the message declared.
AudioTaskRespondConnectionSession(i) ==
    /\ i \in DOMAIN audio_tasks
    /\ audio_tasks[i].pc = "processing"
    /\ LET r == audio_tasks[i].ctx IN
       \E ok \in WriteOutcomes(r) :
          /\ outbound' = IF ok
                THEN [outbound EXCEPT
                        ![r] = Append(@, TextResponse(
                                   session_id_for_this_connection(r), "audio"))]
                ELSE outbound
          /\ audio_tasks' = [audio_tasks EXCEPT
                ![i].pc = IF ok THEN "responded" ELSE "write_failed"]
    /\ UNCHANGED <<wait_for_impl, active_robot_streams, robot_audio_buffers,
                   pending_power_requests, future, handler, rpc_done,
                   cleanup_task, sentinel_reply,
                   tool, timer, used_ids, hist, acked, received, cancel_logged, client_vars>>

\* Lines 248-264: the final text response is written to the context found at
\* the start; a failed write is logged.
AudioTaskRespond(i) ==
    /\ i \in DOMAIN audio_tasks
    /\ audio_tasks[i].pc = "processing"
    /\ LET r == audio_tasks[i].ctx IN
       \E ok \in WriteOutcomes(r) :
          /\ outbound' = IF ok
                THEN [outbound EXCEPT
                        ![r] = Append(@, TextResponse(audio_tasks[i].session, "audio"))]
                ELSE outbound
          /\ audio_tasks' = [audio_tasks EXCEPT
                ![i].pc = IF ok THEN "responded" ELSE "write_failed"]
    /\ UNCHANGED <<wait_for_impl, active_robot_streams, robot_audio_buffers,
                   pending_power_requests, future, handler, rpc_done,
                   cleanup_task, sentinel_reply,
                   tool, timer, used_ids, hist, acked, received, cancel_logged, client_vars>>

\* ------------------------------------------------ tools/robot_commands.py
Finished(tl, result, value) ==
    [tl EXCEPT !.pc = "done", !.result = result, !.value = value]

\* _get_grpc_context, lines 23-48 (the tool context is present here).
GetGrpcContext(user_id) ==
    IF user_id = NoValue THEN "None"
    ELSE get_grpc_context_by_robot_id(active_robot_streams, user_id)

\* uuid4().hex[:8]: an id that has not been handed out.
FreshIds == CmdIds \ used_ids
FreshId == CHOOSE c \in FreshIds : TRUE

\* capture_image_tool, lines 192-197: the capture type is parsed after the
\* lookup; an unknown type is an error return.
CaptureTypeOutcomes(kind) == IF kind = "capture_image" THEN BOOLEAN ELSE {TRUE}

\* Variant: the robot id / session id test (lines 73, 232) is left out.
ToolCallUnchecked(t, kind, has_ictx, user_id, session_id) ==
    /\ tool[t].pc = "idle"
    /\ IF ~has_ictx
       THEN /\ tool' = [tool EXCEPT ![t] = Finished(tool[t], "ErrInvocationContext", NoValue)]
            /\ UNCHANGED <<pending_power_requests, future, used_ids>>
       ELSE IF GetGrpcContext(user_id) = "None"
       THEN /\ tool' = [tool EXCEPT ![t] = Finished(tool[t], "NoActiveConnection", NoValue)]
            /\ UNCHANGED <<pending_power_requests, future, used_ids>>
       ELSE /\ FreshIds # {}
            /\ used_ids' = used_ids \cup {FreshId}
            /\ tool' = [tool EXCEPT ![t] =
                  [pc |-> "writing", kind |-> kind, robot |-> user_id,
                   session |-> session_id, cmd |-> FreshId,
                   result |-> "-", value |-> NoValue]]
            /\ IF kind = "get_power_status"
               THEN /\ future' = [future EXCEPT ![t] = NewFuture]
                    /\ pending_power_requests' =
                          add_pending_power_request(pending_power_requests,
                                                    FreshId, t)
               ELSE UNCHANGED <<pending_power_requests, future>>
    /\ UNCHANGED <<wait_for_impl, active_robot_streams, robot_audio_buffers,
                   handler, rpc_done, cleanup_task, outbound, sentinel_reply,
                   audio_tasks, timer, hist, acked, received, cancel_logged, client_vars>>

\* Lines 224-254 (get_power_status_tool) and 65-93 (move_shimmy_tool and, at
\* lines 127-158, 177-209, 286-314, 328-354, 376-402, the other
\* fire-and-forget tools): validation, lookup, fresh command id and, for
\* get_power_status, the future added to the table; the tool then suspends
\* in `await grpc_context.write`.
ToolCall(t, kind, has_ictx, user_id, session_id) ==
    /\ tool[t].pc = "idle"
    /\ LET tl == [tool[t] EXCEPT !.kind = kind, !.robot = user_id,
                                 !.session = session_id]
       IN
       IF ~has_ictx
       THEN /\ tool' = [tool EXCEPT ![t] = Finished(tool[t], "ErrInvocationContext", NoValue)]
            /\ UNCHANGED <<pending_power_requests, future, used_ids>>
       ELSE IF user_id = NoValue \/ session_id = NoSession
       THEN /\ tool' = [tool EXCEPT ![t] = Finished(tool[t], "ErrRobotSession", NoValue)]
            /\ UNCHANGED <<pending_power_requests, future, used_ids>>
       ELSE IF GetGrpcContext(user_id) = "None"
       THEN /\ tool' = [tool EXCEPT ![t] = Finished(tl, "NoActiveConnection", NoValue)]
            /\ UNCHANGED <<pending_power_requests, future, used_ids>>
       ELSE \E capture_ok \in CaptureTypeOutcomes(kind) :
            IF ~capture_ok
            THEN /\ tool' = [tool EXCEPT ![t] = Finished(tool[t], "ErrCaptureType", NoValue)]
                 /\ UNCHANGED <<pending_power_requests, future, used_ids>>
            ELSE LET command_id == FreshId IN
                 /\ FreshIds # {}
                 /\ used_ids' = used_ids \cup {command_id}
                 /\ tool' = [tool EXCEPT ![t] = [tl EXCEPT !.pc = "writing",
                                                            !.cmd = command_id]]
                 /\ IF kind = "get_power_status"
                    THEN /\ future' = [future EXCEPT ![t] = NewFuture]
                         /\ pending_power_requests' =
                               add_pending_power_request(pending_power_requests,
                                                         command_id, t)
                    ELSE UNCHANGED <<pending_power_requests, future>>
    /\ UNCHANGED <<wait_for_impl, active_robot_streams, robot_audio_buffers,
                   handler, rpc_done, cleanup_task, outbound, sentinel_reply, audio_tasks, timer, hist, acked, received, cancel_logged, client_vars>>

\* Variant: the except branch of the write returns the send error without
\* resolving the slot.
ToolWriteLeavesSlot(t) ==
    /\ tool[t].pc = "writing"
    /\ \E ok \in WriteOutcomes(tool[t].robot) :
          IF ok
          THEN /\ outbound' = [outbound EXCEPT
                     ![tool[t].robot] =
                        Append(@, RobotCommand(tool[t].session, tool[t].cmd, t))]
               /\ tool' = [tool EXCEPT ![t].pc = "written"]
          ELSE /\ tool' = [tool EXCEPT ![t] = Finished(@, "SendFailed", NoValue)]
               /\ UNCHANGED outbound
    /\ UNCHANGED <<wait_for_impl, active_robot_streams, robot_audio_buffers,
                   pending_power_requests, future, hist,
                   handler, rpc_done, cleanup_task, sentinel_reply, audio_tasks,
                   timer, used_ids, acked, received, cancel_logged, client_vars>>

\* Lines 257-258 and 275-278 (96-102 for fire-and-forget): the awaited write
\* hands the frame to the transport or raises.  On a failed write
\* get_power_status resolves its own slot and returns the send error.
ToolWrite(t) ==
    /\ tool[t].pc = "writing"
    /\ LET r == tool[t].robot
           c == tool[t].cmd
           res == resolve_pending_power_request(pending_power_requests, future,
                     c, "Error: Failed to send command")
       IN \E ok \in WriteOutcomes(r) :
          IF ok
          THEN /\ outbound' = [outbound EXCEPT
                     ![r] = Append(@, RobotCommand(tool[t].session, c, t))]
               /\ tool' = [tool EXCEPT ![t].pc = "written"]
               /\ UNCHANGED <<pending_power_requests, future, hist>>
          ELSE /\ tool' = [tool EXCEPT ![t] = Finished(@, "SendFailed", NoValue)]
               /\ IF tool[t].kind = "get_power_status"
                  THEN /\ pending_power_requests' = res.table
                       /\ future' = res.futs
                       /\ hist' = HistAfter(hist, c, res)
                  ELSE UNCHANGED <<pending_power_requests, future, hist>>
               /\ UNCHANGED outbound
    /\ UNCHANGED <<wait_for_impl, active_robot_streams, robot_audio_buffers,
                   handler, rpc_done, cleanup_task, sentinel_reply, audio_tasks,
                   timer, used_ids, acked, received, cancel_logged, client_vars>>

\* Variant: every tool waits for the acknowledgement of its command.
ToolWrittenAlwaysWaits(t) ==
    /\ tool[t].pc = "written"
    /\ IF future[t].state = "result"
       THEN /\ tool' = [tool EXCEPT ![t] = Finished(@, "Reply", future[t].value)]
            /\ UNCHANGED timer
       ELSE /\ tool' = [tool EXCEPT ![t].pc = "awaiting"]
            /\ timer' = [timer EXCEPT ![t] = "armed"]
    /\ UNCHANGED <<wait_for_impl, active_robot_streams, robot_audio_buffers,
                   pending_power_requests, future, handler, rpc_done,
                   cleanup_task, outbound, sentinel_reply, audio_tasks,
                   used_ids, hist, acked, received, cancel_logged, client_vars>>

\* Variant: the tool waits for its future with a blocking call, which
\* holds the event loop and with it every receive loop.
ToolWrittenBlocksLoop(t) ==
    /\ tool[t].pc = "written"
    /\ IF tool[t].kind # "get_power_status"
       THEN /\ tool' = [tool EXCEPT ![t] = Finished(@, "Sent", NoValue)]
            /\ UNCHANGED <<timer, handler>>
       ELSE IF future[t].state = "result"
       THEN /\ tool' = [tool EXCEPT ![t] = Finished(@, "Reply", future[t].value)]
            /\ UNCHANGED <<timer, handler>>
       ELSE /\ tool' = [tool EXCEPT ![t].pc = "awaiting"]
            /\ timer' = [timer EXCEPT ![t] = "armed"]
            /\ handler' = [r \in Robots |->
                  IF handler[r] = "STREAMING" THEN "BLOCKED" ELSE handler[r]]
    /\ UNCHANGED <<wait_for_impl, active_robot_streams, robot_audio_buffers,
                   pending_power_requests, future, rpc_done,
                   cleanup_task, outbound, sentinel_reply, audio_tasks,
                   used_ids, hist, acked, received, cancel_logged, client_vars>>

\* Lines 259-264 (102 for fire-and-forget): the task runs again after the
\* write.  A fire-and-forget tool returns; get_power_status enters wait_for,
\* which returns at once when the future is already done and otherwise arms
\* the 10 s timeout and suspends.
ToolWritten(t) ==
    /\ tool[t].pc = "written"
    /\ IF tool[t].kind # "get_power_status"
       THEN /\ tool' = [tool EXCEPT ![t] = Finished(@, "Sent", NoValue)]
            /\ UNCHANGED timer
       ELSE IF future[t].state = "result"
       THEN /\ tool' = [tool EXCEPT ![t] = Finished(@, "Reply", future[t].value)]
            /\ UNCHANGED timer
       ELSE /\ tool' = [tool EXCEPT ![t].pc = "awaiting"]
            /\ timer' = [timer EXCEPT ![t] = "armed"]
    /\ UNCHANGED <<wait_for_impl, active_robot_streams, robot_audio_buffers,
                   pending_power_requests, future, handler, rpc_done,
                   cleanup_task, outbound, sentinel_reply, audio_tasks,
                   used_ids, hist, acked, received, cancel_logged, client_vars>>


\* ---------------------------------- asyncio.wait_for(power_status_future, 10)
\* What the suspended wait_for does when its task runs again (line 262).
\*   "waiter" (wait_for up to Python 3.11): a future that is done wins even
\*   when the timeout handle has fired; otherwise the future is cancelled and
\*   TimeoutError is raised one loop iteration later.
\*   "timeout_scope" (wait_for on asyncio.timeout, Python 3.12 on): a fired
\*   timeout has cancelled the task, so TimeoutError is raised whether or not
\*   the future got its result in between.
WaitForOutcome(impl, f, tm) ==
    IF impl = "waiter"
    THEN IF f.state = "result" THEN "result" ELSE "cancel_and_wait"
    ELSE IF tm = "fired" THEN "timeout" ELSE "result"

\* The 10 s timeout handle of wait_for fires.  Under "timeout_scope" the
\* handle cancels the task, which cancels the future it waits on when that
\* future is still pending.
TimerFire(t) ==
    /\ tool[t].pc = "awaiting"
    /\ timer[t] = "armed"
    /\ timer' = [timer EXCEPT ![t] = "fired"]
    /\ future' = IF wait_for_impl = "timeout_scope"
                 THEN [future EXCEPT ![t] = CancelFuture(@)]
                 ELSE future
    /\ UNCHANGED <<wait_for_impl, active_robot_streams, robot_audio_buffers,
                   pending_power_requests, handler, rpc_done, cleanup_task,
                   outbound, sentinel_reply,
                   audio_tasks, tool, used_ids, hist, acked, received, cancel_logged, client_vars>>

\* Variant: the TimeoutError handler returns without touching the table.
TimeoutHandlerKeepsSlot(t) ==
    /\ tool' = [tool EXCEPT ![t] = Finished(@, "TimedOut", NoValue)]
    /\ UNCHANGED <<pending_power_requests, future, hist>>

\* Lines 265-268: the TimeoutError handler resolves (pops) the slot and
\* returns the timeout error.
TimeoutHandler(t) ==
    LET res == resolve_pending_power_request(pending_power_requests, future,
                  tool[t].cmd, "Error: Timeout waiting for power status.")
    IN /\ pending_power_requests' = res.table
       /\ future' = res.futs
       /\ hist' = HistAfter(hist, tool[t].cmd, res)
       /\ tool' = [tool EXCEPT ![t] = Finished(@, "TimedOut", NoValue)]

\* Lines 262-268: the task waiting in wait_for runs again, because the future
\* is done or because the timeout handle fired.
ToolResume(t) ==
    /\ tool[t].pc = "awaiting"
    /\ FutureDone(future[t]) \/ timer[t] = "fired"
    /\ LET out == WaitForOutcome(wait_for_impl, future[t], timer[t]) IN
       CASE out = "result" ->
              /\ tool' = [tool EXCEPT ![t] = Finished(@, "Reply", future[t].value)]
              /\ timer' = [timer EXCEPT ![t] = IF @ = "armed" THEN "cancelled" ELSE @]
              /\ UNCHANGED <<pending_power_requests, future, hist>>
         [] out = "cancel_and_wait" ->
              /\ future' = [future EXCEPT ![t] = CancelFuture(@)]
              /\ tool' = [tool EXCEPT ![t].pc = "cancel_wait"]
              /\ UNCHANGED <<pending_power_requests, timer, hist>>
         [] out = "timeout" ->
              /\ TimeoutHandler(t)
              /\ UNCHANGED timer
    /\ UNCHANGED <<wait_for_impl, active_robot_streams, robot_audio_buffers,
                   handler, rpc_done, cleanup_task, outbound, sentinel_reply, audio_tasks, used_ids, acked, received, cancel_logged, client_vars>>

\* "waiter" only: _cancel_and_wait has returned, wait_for raises TimeoutError
\* and the handler at lines 265-268 runs.
ToolTimeout(t) ==
    /\ tool[t].pc = "cancel_wait"
    /\ TimeoutHandler(t)
    /\ UNCHANGED <<wait_for_impl, active_robot_streams, robot_audio_buffers,
                   handler, rpc_done, cleanup_task, outbound, sentinel_reply, audio_tasks, timer, used_ids, acked, received, cancel_logged, client_vars>>

\* The task running the tool is cancelled while suspended (in the write or in
\* wait_for).  CancelledError is not an Exception: no handler of lines
\* 265-278 runs.  wait_for cancels the future it waits on; the "waiter"
\* wait_for returns the result instead when the future already has one.
ToolCancel(t) ==
    /\ tool[t].pc \in {"writing", "written", "awaiting", "cancel_wait"}
    /\ IF tool[t].pc = "awaiting" /\ wait_for_impl = "waiter"
          /\ future[t].state = "result"
       THEN /\ tool' = [tool EXCEPT ![t] = Finished(@, "Reply", future[t].value)]
            /\ UNCHANGED future
       ELSE /\ tool' = [tool EXCEPT ![t].pc = "cancelled", ![t].result = "Cancelled"]
            /\ future' = IF tool[t].pc = "awaiting"
                         THEN [future EXCEPT ![t] = CancelFuture(@)]
                         ELSE future
    /\ UNCHANGED <<wait_for_impl, active_robot_streams, robot_audio_buffers,
                   pending_power_requests, handler, rpc_done, cleanup_task,
                   outbound, sentinel_reply,
                   audio_tasks, timer, used_ids, hist, acked, received, cancel_logged, client_vars>>

\* Lines 314-321: the audio_data arguments of the process_audio_and_respond
\* tasks created for connection r, the first n of them, one after the other.
RECURSIVE HandedDownstream(_, _)
HandedDownstream(r, n) ==
    IF n = 0 THEN << >>
    ELSE HandedDownstream(r, n - 1)
            \o (IF audio_tasks[n].robot = r THEN audio_tasks[n].data ELSE << >>)

\* --------------------------------------------------------- specification
UserIds == Robots \cup {NoValue}
SessionIds == {NoSession, ToolSession}

AckFrames == {f \in Frames : f.type = "command_ack"}

\* ------------------------------------------------- mock_robot_client.py
\* The mock robot: run_robot_client keeps one Communicate stream open and
\* reconnects when it ends; generate_messages is the request iterator of a
\* stream and forwards what the shared outgoing queue holds; the
\* interactive shell puts commands on the queue and signals shutdown.

\* Line 167.
max_retries == 5

\* What the queue holds: the stop marker (line 278), an acknowledgement
\* (lines 214-225) or an interactive command (lines 100-110).
QueueItems == {"None", "ack", "interactive"}

\* cloud_payload of a CloudToRobotMessage (lines 201, 227-232)
PayloadTypes == {"robot_command", "text_response"}

\* The stream of the current connection ends.  What becomes of its request
\* iterator is up to grpc.aio: a generator that never yielded its initial
\* message, or is suspended in a yield, is not resumed; one that waits on
\* the queue (line 136) is either cancelled with the call or left waiting.
RequestIteratorDropped ==
    /\ message_generator' = "none"
    /\ IF message_generator = "polling"
       THEN \E left_waiting \in BOOLEAN :
               /\ left_waiting => stale_generators < MaxStale
               /\ stale_generators' =
                     IF left_waiting THEN stale_generators + 1 ELSE stale_generators
       ELSE UNCHANGED stale_generators

\* Lines 171-190: one pass of `while not shared_shutdown_event.is_set()`:
\* the counter is set to 0, the shell is started, the channel is opened and
\* Communicate is called with a new generator.
ClientConnect ==
    /\ client_pc = "loop"
    /\ ~shutdown_event
    /\ retry_count' = 0
    /\ message_generator' = "created"
    /\ client_pc' = "streaming"
    /\ UNCHANGED <<shutdown_event, outgoing_message_queue, stale_generators,
                   consecutive_failures, server_vars>>

\* Lines 190-234: one iteration of `async for server_message`.
ServerMessage(payload_type) ==
    /\ client_pc = "streaming"
    /\ IF shutdown_event
       THEN /\ client_pc' = "finally"
            /\ RequestIteratorDropped
            /\ UNCHANGED <<retry_count, consecutive_failures, outgoing_message_queue>>
       ELSE /\ retry_count' = 0
            /\ consecutive_failures' = 0
            /\ IF payload_type = "robot_command"
               THEN /\ Len(outgoing_message_queue) < MaxQueued
                    /\ outgoing_message_queue' = Append(outgoing_message_queue, "ack")
               ELSE UNCHANGED outgoing_message_queue
            /\ UNCHANGED <<client_pc, message_generator, stale_generators>>
    /\ UNCHANGED <<shutdown_event, server_vars>>

\* Lines 190, 264: the server ends the stream without an error.
StreamCompleted ==
    /\ client_pc = "streaming"
    /\ client_pc' = "finally"
    /\ RequestIteratorDropped
    /\ UNCHANGED <<shutdown_event, retry_count, outgoing_message_queue,
                   consecutive_failures, server_vars>>

\* Lines 238-254: `except grpc.aio.AioRpcError`.
AioRpcError ==
    /\ client_pc = "streaming"
    /\ consecutive_failures < MaxFailures
    /\ consecutive_failures' = consecutive_failures + 1
    /\ IF retry_count < max_retries /\ ~shutdown_event
       THEN /\ retry_count' = retry_count + 1
            /\ client_pc' = "backoff"
            /\ UNCHANGED shutdown_event
       ELSE /\ shutdown_event' = TRUE
            /\ client_pc' = "finally"
            /\ UNCHANGED retry_count
    /\ RequestIteratorDropped
    /\ UNCHANGED <<outgoing_message_queue, server_vars>>

\* Lines 249-250: the sleep is over (or was cancelled), `continue` enters
\* the finally block.
BackoffElapsed ==
    /\ client_pc = "backoff"
    /\ client_pc' = "finally"
    /\ UNCHANGED <<shutdown_event, retry_count, outgoing_message_queue,
                   message_generator, stale_generators, consecutive_failures,
                   server_vars>>

\* Lines 288-305: main_async_runner cancels the client task once shutdown is
\* signalled; the CancelledError goes through the finally block.
ClientCancelled ==
    /\ client_pc = "streaming"
    /\ shutdown_event
    /\ client_pc' = "finally"
    /\ RequestIteratorDropped
    /\ UNCHANGED <<shutdown_event, retry_count, outgoing_message_queue,
                   consecutive_failures, server_vars>>

\* Lines 264-285: the finally block cancels the shell, puts None on the
\* queue and goes round the loop unless shutdown is set.
ClientFinally ==
    /\ client_pc = "finally"
    /\ Len(outgoing_message_queue) < MaxQueued
    /\ outgoing_message_queue' = Append(outgoing_message_queue, "None")
    /\ client_pc' =
          IF ~shutdown_event /\ retry_count < max_retries THEN "loop"
          ELSE IF shutdown_event THEN "finished" ELSE "loop"
    /\ UNCHANGED <<shutdown_event, retry_count, message_generator,
                   stale_generators, consecutive_failures, server_vars>>

\* Lines 81-110: the shell queues the text the user typed.
InteractiveCommand ==
    /\ client_pc \in {"streaming", "backoff"}
    /\ ~shutdown_event
    /\ Len(outgoing_message_queue) < MaxQueued
    /\ outgoing_message_queue' = Append(outgoing_message_queue, "interactive")
    /\ UNCHANGED <<client_pc, shutdown_event, retry_count, message_generator,
                   stale_generators, consecutive_failures, server_vars>>

\* Lines 88-97: quit, exit or end of input.
InteractiveQuit ==
    /\ client_pc \in {"streaming", "backoff"}
    /\ ~shutdown_event
    /\ shutdown_event' = TRUE
    /\ UNCHANGED <<client_pc, retry_count, outgoing_message_queue,
                   message_generator, stale_generators, consecutive_failures,
                   server_vars>>

\* Lines 128-130: the initial status is yielded.
GenerateInitial ==
    /\ client_pc = "streaming"
    /\ message_generator = "created"
    /\ message_generator' = "polling"
    /\ UNCHANGED <<client_pc, shutdown_event, retry_count, outgoing_message_queue,
                   stale_generators, consecutive_failures, server_vars>>

\* Lines 132-142: the generator of the current stream takes the head of the
\* queue: None ends it, anything else is yielded to the server.
GenerateFromQueue ==
    /\ client_pc = "streaming"
    /\ message_generator = "polling"
    /\ outgoing_message_queue # << >>
    /\ outgoing_message_queue' = Tail(outgoing_message_queue)
    /\ message_generator' =
          IF Head(outgoing_message_queue) = "None" THEN "exited" ELSE "polling"
    /\ UNCHANGED <<client_pc, shutdown_event, retry_count, stale_generators,
                   consecutive_failures, server_vars>>

\* Lines 132, 143-144: the 0.5 s timeout passes and the loop condition sees
\* the shutdown event.
GenerateShutdown ==
    /\ message_generator = "polling"
    /\ shutdown_event
    /\ message_generator' = "exited"
    /\ UNCHANGED <<client_pc, shutdown_event, retry_count, outgoing_message_queue,
                   stale_generators, consecutive_failures, server_vars>>

\* Lines 132-142 in a generator of an earlier stream: it takes the head of
\* the queue; None ends it, and a message it yields goes to a finished call,
\* after which it is not resumed.
StaleGenerateFromQueue ==
    /\ stale_generators > 0
    /\ outgoing_message_queue # << >>
    /\ outgoing_message_queue' = Tail(outgoing_message_queue)
    /\ stale_generators' = stale_generators - 1
    /\ UNCHANGED <<client_pc, shutdown_event, retry_count, message_generator,
                   consecutive_failures, server_vars>>

\* Lines 132, 143-144 in a generator of an earlier stream.
StaleGenerateShutdown ==
    /\ stale_generators > 0
    /\ shutdown_event
    /\ stale_generators' = stale_generators - 1
    /\ UNCHANGED <<client_pc, shutdown_event, retry_count, outgoing_message_queue,
                   message_generator, consecutive_failures, server_vars>>

\* The steps of the system in an environment E: the robots that connect, the
\* frames they send, the tool invocations made and their inputs.
\* Communicate and its cleanup task:
ConnSteps(E) ==
    \/ \E r \in E.robots : Connect(r)
    \/ \E r \in E.robots : \E f \in E.frames : HandleFrame(r, f)
    \/ \E r \in E.robots : SentinelWrite(r)
    \/ \E r \in E.robots : StreamExhausted(r)
    \/ \E r \in E.robots : ReadError(r)
    \/ \E r \in E.robots : RpcTerminate(r)
    \/ \E r \in E.robots : Cleanup(r)

\* the process_audio_and_respond tasks:
AudioSteps ==
    \/ \E i \in 1..MaxAudioTasks : AudioTaskStart(i)
    \/ \E i \in 1..MaxAudioTasks : AudioTaskRespond(i)

\* the robot command tools:
ToolSteps(E) ==
    \/ \E t \in E.callers : \E kind \in E.kinds : \E has_ictx \in E.ictx :
          \E user_id \in E.user_ids : \E session_id \in E.sessions :
             ToolCall(t, kind, has_ictx, user_id, session_id)
    \/ \E t \in E.callers : ToolWrite(t)
    \/ \E t \in E.callers : ToolWritten(t)
    \/ \E t \in E.callers : TimerFire(t)
    \/ \E t \in E.callers : ToolResume(t)
    \/ \E t \in E.callers : ToolTimeout(t)
    \/ \E t \in E.callers : ToolCancel(t)

\* the mock robot client:
ClientSteps ==
    \/ ClientConnect
    \/ \E payload_type \in PayloadTypes : ServerMessage(payload_type)
    \/ StreamCompleted
    \/ AioRpcError
    \/ BackoffElapsed
    \/ ClientCancelled
    \/ ClientFinally
    \/ InteractiveCommand
    \/ InteractiveQuit
    \/ GenerateInitial
    \/ GenerateFromQueue
    \/ GenerateShutdown
    \/ StaleGenerateFromQueue
    \/ StaleGenerateShutdown

\* Every robot, caller, tool input and frame.
EnvAll ==
    [robots |-> Robots, callers |-> Callers, kinds |-> ToolKinds,
     ictx |-> BOOLEAN, user_ids |-> UserIds, sessions |-> SessionIds,
     frames |-> Frames]

\* Command correlation: two concurrent get_power_status calls with a valid
\* context, addressed to either robot id; one robot connects and sends
\* acknowledgements.  No audio is sent, so no audio task exists.
EnvCorr ==
    [robots |-> {"r1"}, callers |-> Callers, kinds |-> {"get_power_status"},
     ictx |-> {TRUE}, user_ids |-> Robots, sessions |-> {ToolSession},
     frames |-> AckFrames]

\* Connection lifecycle: two connections; audio, unrecognised frames and the
\* sentinel acknowledgement; no tool is invoked.
EnvConn ==
    [robots |-> Robots, callers |-> {}, kinds |-> {},
     ictx |-> {}, user_ids |-> {}, sessions |-> {},
     frames |-> {f \in Frames : f.type = "command_ack" => f.cmd = INTERACTIVE}]

\* Tool invocation: one caller with every tool input, two connections that
\* send the sentinel acknowledgement and status frames.
EnvTool ==
    [robots |-> Robots, callers |-> {"t1"}, kinds |-> ToolKinds,
     ictx |-> BOOLEAN, user_ids |-> UserIds, sessions |-> SessionIds,
     frames |-> {f \in Frames : /\ f.type # "audio_chunk"
                                /\ f.type = "command_ack" => f.cmd = INTERACTIVE}]

\* Waiting callers: as EnvCorr, every acknowledgement carrying one message.
EnvWait ==
    [robots |-> {"r1"}, callers |-> Callers, kinds |-> {"get_power_status"},
     ictx |-> {TRUE}, user_ids |-> Robots, sessions |-> {ToolSession},
     frames |-> {f \in AckFrames : f.msg = "m1"}]

\* Writers on a connection: two connections, one sending audio and the
\* sentinel acknowledgement; one caller of a fire-and-forget tool and of
\* get_power_status with a valid context, addressed to the first robot.
EnvWrite ==
    [robots |-> Robots, callers |-> {"t1"},
     kinds |-> {"move", "get_power_status"},
     ictx |-> {TRUE}, user_ids |-> {"r1"}, sessions |-> {ToolSession},
     frames |-> {AudioFrame(NoSession, <<1, 2>>),
                 AckFrame(ClientSession, INTERACTIVE, "m1")}]

\* Session propagation: two connections sending audio and the sentinel
\* acknowledgement, each with and without a declared session id.
EnvSession ==
    [robots |-> Robots, callers |-> {}, kinds |-> {},
     ictx |-> {}, user_ids |-> {}, sessions |-> {},
     frames |-> {AudioFrame(NoSession, <<1, 2>>),
                 AudioFrame(ClientSession, <<1>>),
                 AckFrame(NoSession, INTERACTIVE, "m1"),
                 AckFrame(ClientSession, INTERACTIVE, "m1")}]

\* A suspended caller: two connections sending acknowledgements, one
\* get_power_status call with a valid context addressed to either robot.
EnvAwait ==
    [robots |-> Robots, callers |-> {"t1"}, kinds |-> {"get_power_status"},
     ictx |-> {TRUE}, user_ids |-> Robots, sessions |-> {ToolSession},
     frames |-> {f \in AckFrames : f.msg = "m1"}]

\* Fire-and-forget sends: one connection sending acknowledgements, two
\* callers with a valid context addressed to that robot.  move stands for
\* the tools that only send, capture_image adds its own validation, and
\* get_power_status is the tool that registers a pending request.
EnvSend ==
    [robots |-> {"r1"}, callers |-> Callers,
     kinds |-> {"move", "capture_image", "get_power_status"},
     ictx |-> {TRUE}, user_ids |-> {"r1"}, sessions |-> {ToolSession},
     frames |-> {f \in AckFrames : f.msg = "m1"}]

\* Next is the whole system; the slices below keep one concern each, and are
\* the ones small enough to be explored exhaustively.
Next == ConnSteps(EnvAll) \/ AudioSteps \/ ToolSteps(EnvAll) \/ ClientSteps
NextCorr == ConnSteps(EnvCorr) \/ ToolSteps(EnvCorr)
NextConn == ConnSteps(EnvConn) \/ AudioSteps
NextTool == ConnSteps(EnvTool) \/ ToolSteps(EnvTool)
NextWait == ConnSteps(EnvWait) \/ ToolSteps(EnvWait)
NextWrite == ConnSteps(EnvWrite) \/ AudioSteps \/ ToolSteps(EnvWrite)
NextSession == ConnSteps(EnvSession) \/ AudioSteps
NextAwait == ConnSteps(EnvAwait) \/ ToolSteps(EnvAwait)
NextSend == ConnSteps(EnvSend) \/ ToolSteps(EnvSend)

Spec == Init /\ [][Next]_vars
SpecCorr == Init /\ [][NextCorr]_vars
SpecConn == Init /\ [][NextConn]_vars
SpecTool == Init /\ [][NextTool]_vars
SpecWrite == Init /\ [][NextWrite]_vars
SpecSession == Init /\ [][NextSession]_vars
SpecAwait == Init /\ [][NextAwait]_vars
SpecSend == Init /\ [][NextSend]_vars
SpecClient == Init /\ [][ClientSteps]_vars

\* The event loop runs a ready callback, a due timer and a resumed task.
FairWait ==
    Init /\ [][NextWait]_vars
         /\ \A t \in Callers :
                   /\ WF_vars(ToolWritten(t))
                   /\ WF_vars(TimerFire(t))
                   /\ WF_vars(ToolResume(t))
                   /\ WF_vars(ToolTimeout(t))

\* The cleanup task created by the done callback is run by the event loop.
FairConn == SpecConn /\ \A r \in Robots : WF_vars(Cleanup(r))

\* ------------------------------------------------------------------ claims

\* C1: for every command id at most one resolve call sets a result, and a
\* get_power_status call that waited returns exactly one of the reply value
\* (the value that was set) or TimedOut (no value), also when the reply and
\* the timeout happen together.
C1_OneResolutionOneOutcome ==
    /\ \A c \in DOMAIN hist : hist[c].sets <= 1
    /\ \A t \in Callers :
          (tool[t].pc = "done" /\ tool[t].kind = "get_power_status"
              /\ tool[t].cmd \in CmdIds /\ tool[t].result # "SendFailed")
          => \/ /\ tool[t].result = "Reply"
                /\ future[t].state = "result"
                /\ tool[t].value = future[t].value
                /\ hist[tool[t].cmd].sets = 1
             \/ /\ tool[t].result = "TimedOut"
                /\ tool[t].value = NoValue

\* A caller has returned after both a reply was set and its timer fired.
C1_Witness ==
    \E t \in Callers :
        /\ tool[t].pc = "done"
        /\ tool[t].result \in {"Reply", "TimedOut"}
        /\ future[t].state = "result"
        /\ future[t].value \in Msgs
        /\ timer[t] = "fired"

\* C2: a get_power_status call whose acknowledgement was handled by the
\* receive loop (its future holds the acknowledgement's message) returns that
\* message and not TimedOut.
C2_AckReleasesCaller ==
    \A t \in Callers :
        (tool[t].pc = "done" /\ tool[t].kind = "get_power_status"
            /\ future[t].state = "result" /\ future[t].value \in Msgs)
        => /\ tool[t].result = "Reply"
           /\ tool[t].value = future[t].value

\* C3: a get_power_status call that has written its command and is waiting
\* eventually returns (unless its task is cancelled) with no entry left in the
\* table for its command id, and with TimedOut when no acknowledgement ever
\* resolved it.
C3_TimeoutEvicts ==
    \A t \in Callers :
        (tool[t].pc \in {"written", "awaiting"})
        ~> \/ tool[t].pc = "cancelled"
           \/ /\ tool[t].pc = "done"
              /\ tool[t].cmd \notin DOMAIN pending_power_requests
              /\ future[t].state # "result" => tool[t].result = "TimedOut"

\* A caller that was never acknowledged has returned TimedOut and its command
\* id is not in the table.
C3_Witness ==
    \E t \in Callers :
        /\ tool[t].pc = "done"
        /\ tool[t].result = "TimedOut"
        /\ tool[t].cmd \notin acked
        /\ tool[t].cmd \notin DOMAIN pending_power_requests

\* C4: a tool call with a valid context addressed to a robot id that is not
\* registered returns NoActiveConnection, writes no frame and leaves the table
\* and the futures as they were.
C4_NoActiveConnection ==
    [][\A t \in Callers : \A kind \in ToolKinds : \A user_id \in Robots :
          (ToolCall(t, kind, TRUE, user_id, ToolSession)
              /\ user_id \notin active_robot_streams)
          => /\ tool'[t].pc = "done"
             /\ tool'[t].result = "NoActiveConnection"
             /\ outbound' = outbound
             /\ pending_power_requests' = pending_power_requests
             /\ future' = future]_vars

\* A call addressed to an unregistered robot has returned NoActiveConnection
\* while another robot is registered.
C4_Witness ==
    \E t \in Callers :
        /\ tool[t].pc = "done"
        /\ tool[t].result = "NoActiveConnection"
        /\ tool[t].robot \notin active_robot_streams
        /\ active_robot_streams # {}

\* C5: after a connection has ended (its RPC is done: read error, peer
\* disconnect or cancellation, a failed write, or an exhausted request stream
\* followed by the completion of the transport context), its id is
\* eventually in neither active_robot_streams nor robot_audio_buffers, and a
\* lookup for it returns None.
C5_CleanupOnEnd ==
    \A r \in Robots :
        rpc_done[r]
        ~> /\ r \notin active_robot_streams
           /\ r \notin DOMAIN robot_audio_buffers
           /\ get_grpc_context_by_robot_id(active_robot_streams, r) = "None"

\* The cleanup of an ended connection has run while another connection is
\* still registered.
C5_Witness ==
    \E r \in Robots :
        /\ rpc_done[r]
        /\ cleanup_task[r].state = "ran"
        /\ r \notin active_robot_streams
        /\ r \notin DOMAIN robot_audio_buffers
        /\ active_robot_streams # {}

\* C6 as claimed: resolve_pending_power_request called with a command id that
\* is not in the table, or whose future is already done, returns False and
\* leaves the futures and the table as they were.
C6_NoSideEffect ==
    \A c \in AckIds : \A v \in Msgs :
        (c \notin DOMAIN pending_power_requests
            \/ FutureDone(future[pending_power_requests[c]]))
        => LET res == resolve_pending_power_request(pending_power_requests,
                                                    future, c, v)
           IN /\ res.ret = FALSE
              /\ res.futs = future
              /\ res.table = pending_power_requests

\* C6 amended: such a call returns False and leaves every future as it was;
\* the table is unchanged for an id that is not in it, and loses exactly the
\* entry of that id when the entry's future is already done.
C6_NoFutureChange ==
    \A c \in AckIds : \A v \in Msgs :
        (c \notin DOMAIN pending_power_requests
            \/ FutureDone(future[pending_power_requests[c]]))
        => LET res == resolve_pending_power_request(pending_power_requests,
                                                    future, c, v)
           IN /\ res.ret = FALSE
              /\ res.futs = future
              /\ c \notin DOMAIN pending_power_requests
                    => res.table = pending_power_requests
              /\ DOMAIN res.table = (DOMAIN pending_power_requests) \ {c}
              /\ \A d \in DOMAIN res.table :
                    res.table[d] = pending_power_requests[d]

\* An acknowledgement was handled for a command id whose future was already
\* cancelled: the entry was removed, no result was set, True was not returned.
C6_Witness ==
    \E t \in Callers :
        /\ tool[t].kind = "get_power_status"
        /\ tool[t].cmd \in acked
        /\ future[t].state = "cancelled"
        /\ hist[tool[t].cmd].pops = 1
        /\ hist[tool[t].cmd].sets = 0
        /\ hist[tool[t].cmd].trues = 0
        /\ tool[t].pc # "done"

\* C7: an acknowledgement that resolves no waiter and does not carry the
\* sentinel id is discarded: no future and no caller changes, no frame is
\* written, and the connection stays in its receive loop.
C7_StrayAckDiscarded ==
    [][\A r \in Robots : \A f \in AckFrames :
          (/\ HandleFrame(r, f)
           /\ f.cmd # INTERACTIVE
           /\ ~resolve_pending_power_request(pending_power_requests, future,
                                             f.cmd, f.msg).ret)
          => /\ future' = future
             /\ tool' = tool
             /\ timer' = timer
             /\ outbound' = outbound
             /\ sentinel_reply' = sentinel_reply
             /\ handler' = handler
             /\ rpc_done' = rpc_done
             /\ active_robot_streams' = active_robot_streams]_vars

\* A stray acknowledgement was received while a caller was waiting, and the
\* connection went on to deliver that caller's own acknowledgement.
C7_Witness ==
    \E t \in Callers : \E r \in Robots :
        /\ StrayId \in acked
        /\ handler[r] = "STREAMING"
        /\ tool[t].pc = "done"
        /\ tool[t].result = "Reply"
        /\ outbound[r] # << >>

\* C8: at most one entry is ever removed per command id, no two callers own
\* the same entry, and a caller that returned from its wait left no entry
\* behind: the entry was removed once, by the reply or by the timeout path.
C8_OneEntryRemovedOnce ==
    /\ \A c \in DOMAIN hist : hist[c].pops <= 1
    /\ \A c \in DOMAIN pending_power_requests :
          /\ tool[pending_power_requests[c]].cmd = c
          /\ tool[pending_power_requests[c]].kind = "get_power_status"
    /\ \A t \in Callers :
          (tool[t].pc = "done" /\ tool[t].kind = "get_power_status"
              /\ tool[t].cmd \in CmdIds)
          => /\ tool[t].cmd \notin DOMAIN pending_power_requests
             /\ hist[tool[t].cmd].pops = 1

\* Two callers have returned, one released by its reply and one by the
\* timeout, each entry removed once.
C8_Witness ==
    \E t1 \in Callers : \E t2 \in Callers :
        /\ tool[t1].pc = "done" /\ tool[t1].result = "Reply"
        /\ tool[t2].pc = "done" /\ tool[t2].result = "TimedOut"
        /\ hist[tool[t1].cmd].pops = 1
        /\ hist[tool[t2].cmd].pops = 1
        /\ tool[t2].cmd \in acked

\* C9: resolve_pending_power_request returns True exactly when it set the
\* result of an entry whose future was not done, and a caller whose
\* acknowledgement got True from the receive loop returns, unless cancelled,
\* the acknowledgement's message and not TimedOut.
C9_TrueMeansDelivered ==
    /\ \A c \in AckIds : \A v \in Msgs :
          LET res == resolve_pending_power_request(pending_power_requests,
                                                   future, c, v)
              live == /\ c \in DOMAIN pending_power_requests
                      /\ ~FutureDone(future[pending_power_requests[c]])
          IN /\ res.ret = live
             /\ live => res.futs[pending_power_requests[c]] =
                           [state |-> "result", value |-> v]
    /\ \A c \in DOMAIN hist : hist[c].trues = hist[c].sets
    /\ \A t \in Callers :
          (tool[t].pc = "done" /\ tool[t].kind = "get_power_status"
              /\ tool[t].cmd \in acked /\ hist[tool[t].cmd].trues = 1
              /\ future[t].value \in Msgs)
          => /\ tool[t].result = "Reply"
             /\ tool[t].value = future[t].value

\* C10: while a get_power_status call is writing its command frame, and
\* afterwards until it is resolved, the table holds the entry of its command
\* id, owned by that call; an acknowledgement received at any point after
\* the frame was written has found that entry.
C10_SlotBeforeWrite ==
    \A t \in Callers :
        /\ (tool[t].kind = "get_power_status"
               /\ tool[t].pc \in {"writing", "written", "awaiting"}
               /\ future[t].state = "pending")
           => /\ tool[t].cmd \in DOMAIN pending_power_requests
              /\ pending_power_requests[tool[t].cmd] = t
        /\ (tool[t].kind = "get_power_status"
               /\ tool[t].pc \in {"writing", "written", "awaiting"}
               /\ tool[t].cmd \in acked)
           => future[t].state # "pending"

\* An acknowledgement arrived after the frame was written and before the
\* caller ran again, and found the entry.
C10_Witness ==
    \E t \in Callers :
        /\ tool[t].pc = "written"
        /\ tool[t].cmd \in acked
        /\ future[t].state = "result"
        /\ hist[tool[t].cmd].trues = 1

\* C11: when the write of the command frame of get_power_status fails, the
\* step that returns the send error also takes the call's own entry out of
\* the table (resolving its future with the send error), so the entry is
\* gone when the caller has its result.
C11_SendFailedRemovesSlot ==
    [][\A t \in Callers :
          (tool[t].pc = "writing" /\ tool[t].kind = "get_power_status"
              /\ tool'[t].result = "SendFailed")
          => /\ tool'[t].pc = "done"
             /\ tool[t].cmd \in DOMAIN pending_power_requests
             /\ tool[t].cmd \notin DOMAIN pending_power_requests'
             /\ future'[t] = [state |-> "result",
                              value |-> "Error: Failed to send command"]
             /\ outbound' = outbound]_vars

\* A get_power_status call has returned the send error while the other
\* caller's entry is still in the table.
C11_Witness ==
    \E t \in Callers :
        /\ tool[t].pc = "done"
        /\ tool[t].kind = "get_power_status"
        /\ tool[t].result = "SendFailed"
        /\ tool[t].cmd \notin DOMAIN pending_power_requests
        /\ future[t].value = "Error: Failed to send command"
        /\ pending_power_requests # << >>

\* C12: once the task running get_power_status has been cancelled, during
\* the write or while waiting for the reply, the table holds no entry for
\* its command id.
C12_CancelRemovesSlot ==
    \A t \in Callers :
        (tool[t].pc = "cancelled" /\ tool[t].kind = "get_power_status")
        => tool[t].cmd \notin DOMAIN pending_power_requests

\* C13: add_pending_power_request called with a command id that already has
\* an entry leaves that entry with the future it had (the call is refused).
C13_DuplicateAddRefused ==
    \A c \in DOMAIN pending_power_requests : \A t \in Callers :
        add_pending_power_request(pending_power_requests, c, t)
            = pending_power_requests

\* C14: a call of any command tool that lacks the invocation context, the
\* robot id, the session id or a registered connection returns an error at
\* once, with no frame written, no table entry added and no future created;
\* and a tool reaches its write only with a registered robot and a session id.
C14_ValidateBeforeEffect ==
    [][\A t \in Callers :
          /\ \A kind \in ToolKinds : \A has_ictx \in BOOLEAN :
             \A user_id \in UserIds : \A session_id \in SessionIds :
                (/\ ToolCall(t, kind, has_ictx, user_id, session_id)
                 /\ \/ ~has_ictx
                    \/ user_id = NoValue
                    \/ session_id = NoSession
                    \/ user_id \notin active_robot_streams)
                => /\ tool'[t].pc = "done"
                   /\ tool'[t].result \in {"ErrInvocationContext",
                                           "ErrRobotSession",
                                           "NoActiveConnection"}
                   /\ outbound' = outbound
                   /\ pending_power_requests' = pending_power_requests
                   /\ future' = future
          /\ (tool[t].pc = "idle" /\ tool'[t].pc = "writing")
             => /\ tool'[t].robot \in active_robot_streams
                /\ tool'[t].session # NoSession
                /\ tool'[t].kind \in ToolKinds
                /\ outbound' = outbound]_vars

\* A call without a session id to a registered robot has been refused, with
\* nothing written to that robot.
C14_Witness ==
    \E t \in Callers : \E r \in Robots :
        /\ tool[t].pc = "done"
        /\ tool[t].result = "ErrRobotSession"
        /\ r \in active_robot_streams
        /\ outbound[r] = << >>
        /\ pending_power_requests = << >>

C16_WriteAfterCloseRecoverable ==
    [][/\ \A t \in Callers :
             (ToolWrite(t) /\ rpc_done[tool[t].robot])
             => /\ tool'[t].pc = "done"
                /\ tool'[t].result = "SendFailed"
                /\ outbound' = outbound
                /\ handler' = handler
                /\ audio_tasks' = audio_tasks
       /\ \A i \in DOMAIN audio_tasks :
             (AudioTaskRespond(i) /\ rpc_done[audio_tasks[i].ctx])
             => /\ audio_tasks'[i].pc = "write_failed"
                /\ \A j \in DOMAIN audio_tasks :
                      j # i => audio_tasks'[j] = audio_tasks[j]
                /\ outbound' = outbound
                /\ handler' = handler
                /\ tool' = tool]_vars

\* A tool and an audio task have both failed to write on a connection that
\* had ended, while the other connection is still in its receive loop.
C16_Witness ==
    \E t \in Callers : \E i \in DOMAIN audio_tasks : \E r \in Robots :
        /\ tool[t].pc = "done" /\ tool[t].result = "SendFailed"
        /\ rpc_done[tool[t].robot]
        /\ audio_tasks[i].pc = "write_failed"
        /\ rpc_done[audio_tasks[i].ctx]
        /\ handler[r] = "STREAMING"

\* C17: when a connection has ended while a get_power_status command written
\* on it still has its entry in the table, the waiter eventually returns
\* (unless its task is cancelled) and the entry for its command id is gone,
\* although no acknowledgement can arrive on that connection any more.
C17_NoLeakAcrossDisconnect ==
    \A t \in Callers :
        (/\ tool[t].pc \in {"written", "awaiting"}
         /\ tool[t].cmd \in DOMAIN pending_power_requests
         /\ rpc_done[tool[t].robot]
         /\ handler[tool[t].robot] = "CLOSED")
        ~> \/ tool[t].pc = "cancelled"
           \/ /\ tool[t].pc = "done"
              /\ tool[t].cmd \notin DOMAIN pending_power_requests

\* The connection ended before any acknowledgement of the command was
\* handled; the waiter has returned TimedOut and the table has no entry for
\* its command id.
C17_Witness ==
    \E t \in Callers :
        /\ tool[t].pc = "done"
        /\ tool[t].result = "TimedOut"
        /\ tool[t].robot \in Robots
        /\ rpc_done[tool[t].robot]
        /\ handler[tool[t].robot] = "CLOSED"
        /\ cleanup_task[tool[t].robot].state = "ran"
        /\ future[t].state # "result"
        /\ tool[t].cmd \notin acked
        /\ tool[t].cmd \notin DOMAIN pending_power_requests

\* C18: every response frame produced for an inbound message carries the
\* session id that message declared, or the connection-scoped default when
\* it declared none: the audio task spawned for an audio frame and the
\* sentinel reply prepared for an acknowledgement take that id, the frames
\* then written carry it, and no text response on a connection carries
\* another connection's default.
C18_SessionPropagated ==
    /\ [](\A r \in Robots : \A k \in DOMAIN outbound[r] :
            outbound[r][k].kind = "text_response"
            => outbound[r][k].session
                  \in {ClientSession, session_id_for_this_connection(r)})
    /\ [][/\ \A r \in Robots : \A f \in EnvSession.frames :
               HandleFrame(r, f)
               => LET declared == IF f.session = NoSession
                                  THEN "grpc_conn_session_" \o r
                                  ELSE f.session
                  IN /\ Len(audio_tasks') > Len(audio_tasks)
                        => /\ audio_tasks'[Len(audio_tasks')].session = declared
                           /\ audio_tasks'[Len(audio_tasks')].robot = r
                     /\ handler'[r] = "SENTINEL_WRITE"
                        => sentinel_reply'[r] = declared
          /\ \A r \in Robots :
               (SentinelWrite(r) /\ outbound'[r] # outbound[r])
               => /\ Len(outbound'[r]) = Len(outbound[r]) + 1
                  /\ outbound'[r][Len(outbound'[r])].kind = "text_response"
                  /\ outbound'[r][Len(outbound'[r])].session = sentinel_reply[r]
          /\ \A i \in DOMAIN audio_tasks :
               (AudioTaskRespond(i) /\ outbound' # outbound)
               => LET r == audio_tasks[i].robot
                  IN /\ Len(outbound'[r]) = Len(outbound[r]) + 1
                     /\ outbound'[r][Len(outbound'[r])].kind = "text_response"
                     /\ outbound'[r][Len(outbound'[r])].session
                           = audio_tasks[i].session]_vars

\* One connection has been sent the audio response for a frame that declared
\* a session id, the other the sentinel response for an acknowledgement that
\* declared none.
C18_Witness ==
    \E r, q \in Robots :
        /\ r # q
        /\ \E k \in DOMAIN outbound[r] :
              outbound[r][k] = TextResponse(ClientSession, "audio")
        /\ \E k \in DOMAIN outbound[q] :
              outbound[q][k]
                 = TextResponse(session_id_for_this_connection(q), "handler")

\* C19: on every path by which a connection's handler terminates (the stream
\* ends and the RPC finishes, a read error, a failed write, cancellation) the
\* cleanup is scheduled once and takes effect exactly once, removing the
\* registry entry and the audio buffer; CLOSED is terminal: the handler of a
\* closed connection takes no further step.
C19_CleanupOnceClosedTerminal ==
    /\ [](\A r \in Robots :
            /\ cleanup_task[r].runs <= 1
            /\ handler[r] = "CLOSED" <=> cleanup_task[r].state # "none"
            /\ cleanup_task[r].state = "ran"
               => /\ cleanup_task[r].runs = 1
                  /\ r \notin active_robot_streams
                  /\ r \notin DOMAIN robot_audio_buffers
            /\ cleanup_task[r].state = "scheduled"
               => cleanup_task[r].runs = 0)
    /\ [][\A r \in Robots :
            /\ (handler[r] # "CLOSED" /\ handler'[r] = "CLOSED")
               => /\ cleanup_task[r] = [state |-> "none", runs |-> 0]
                  /\ cleanup_task'[r] = [state |-> "scheduled", runs |-> 0]
            /\ handler[r] = "CLOSED"
               => /\ handler'[r] = "CLOSED"
                  /\ ~Connect(r)
                  /\ ~(\E f \in Frames : HandleFrame(r, f))
                  /\ ~SentinelWrite(r)
                  /\ ~StreamExhausted(r)
                  /\ ~ReadError(r)
                  /\ ~RpcTerminate(r)
                  /\ outbound'[r] = outbound[r]
                  /\ sentinel_reply'[r] = sentinel_reply[r]]_vars
    /\ \A r \in Robots :
          (handler[r] = "CLOSED") ~> (cleanup_task[r].runs = 1)

\* Both connections have terminated, one cancelled in its drain wait after
\* the request stream was exhausted and the other in its receive loop, one of
\* them after sending audio; the cleanup of each has run once and nothing is
\* registered any more.
C19_Witness ==
    /\ \A r \in Robots :
          /\ handler[r] = "CLOSED"
          /\ cleanup_task[r] = [state |-> "ran", runs |-> 1]
    /\ active_robot_streams = {}
    /\ DOMAIN robot_audio_buffers = {}
    /\ \E r \in Robots : received[r] # << >>
    /\ \E r, q \in Robots : cancel_logged[r] /\ ~cancel_logged[q]

\* C20: cancelling the handler of a connection in its drain wait, or in its
\* receive loop, ends the handler in that step (the cancellation is raised
\* again, the handler does not go on polling) and finishes the RPC, which
\* schedules the cleanup; the registry entry and the buffer of a connection
\* cancelled in its drain wait are removed afterwards.
C20_CancelPropagatesThenCleanup ==
    /\ [][\A r \in Robots :
            (RpcTerminate(r) /\ handler[r] \in {"DRAINING", "STREAMING"})
            => /\ handler'[r] = "CLOSED"
               /\ rpc_done'[r]
               /\ cleanup_task'[r].state = "scheduled"
               /\ cancel_logged'[r] <=> handler[r] = "DRAINING"
               /\ active_robot_streams' = active_robot_streams
               /\ robot_audio_buffers' = robot_audio_buffers]_vars
    /\ [](\A r \in Robots :
            cancel_logged[r]
            => /\ handler[r] = "CLOSED"
               /\ rpc_done[r]
               /\ cleanup_task[r].state \in {"scheduled", "ran"})
    /\ \A r \in Robots :
          cancel_logged[r]
          ~> /\ cleanup_task[r].state = "ran"
             /\ r \notin active_robot_streams
             /\ r \notin DOMAIN robot_audio_buffers

\* A connection was cancelled in its drain wait and its cleanup has run,
\* while the other connection is still registered and receiving.
C20_Witness ==
    \E r, q \in Robots :
        /\ cancel_logged[r]
        /\ handler[r] = "CLOSED"
        /\ cleanup_task[r].state = "ran"
        /\ r \notin active_robot_streams
        /\ r \notin DOMAIN robot_audio_buffers
        /\ handler[q] = "STREAMING"
        /\ q \in active_robot_streams

\* C21: when the request stream of a connection ends while its RPC is not
\* done, the handler enters DRAINING and stays there: the RPC is not done,
\* the connection is still registered with its buffer, a write on it can
\* still succeed and an audio task that starts still finds it; the handler
\* leaves DRAINING only in the step in which the RPC is done, and then it is
\* CLOSED.
C21_DrainingUntilRpcDone ==
    /\ [](\A r \in Robots :
            handler[r] = "DRAINING"
            => /\ ~rpc_done[r]
               /\ cleanup_task[r].state = "none"
               /\ r \in active_robot_streams
               /\ r \in DOMAIN robot_audio_buffers
               /\ TRUE \in WriteOutcomes(r))
    /\ [][/\ \A r \in Robots :
               /\ StreamExhausted(r)
                  => /\ handler'[r] = "DRAINING"
                     /\ ~rpc_done'[r]
                     /\ r \in active_robot_streams'
               /\ (handler[r] = "DRAINING" /\ handler'[r] # "DRAINING")
                  => /\ handler'[r] = "CLOSED"
                     /\ rpc_done'[r]
          /\ \A i \in DOMAIN audio_tasks :
               (AudioTaskStart(i) /\ handler[audio_tasks[i].robot] = "DRAINING")
               => audio_tasks'[i].ctx = audio_tasks[i].robot
          /\ \A i \in DOMAIN audio_tasks :
               (AudioTaskRespond(i) /\ handler'[audio_tasks[i].robot] = "DRAINING"
                   /\ audio_tasks'[i].pc = "responded")
               => Len(outbound'[audio_tasks[i].robot])
                     = Len(outbound[audio_tasks[i].robot]) + 1]_vars

\* The request stream of a connection has ended; the connection is still
\* registered and the audio task spawned for it, which looked its context up,
\* has written its response on it.
C21_Witness ==
    \E r \in Robots : \E i \in DOMAIN audio_tasks :
        /\ handler[r] = "DRAINING"
        /\ ~rpc_done[r]
        /\ r \in active_robot_streams
        /\ audio_tasks[i].robot = r
        /\ audio_tasks[i].pc = "responded"
        /\ outbound[r] # << >>

\* C22: handling a frame with an unknown payload tag, or a status update
\* that is not a command acknowledgement, changes neither the registry, the
\* audio buffers, the pending table nor the futures, spawns no task and
\* writes no frame; the handler stays in its receive loop with the RPC open.
C22_UnrecognisedDiscarded ==
    [][\A r \in Robots : \A f \in {OtherFrame("other_status"), OtherFrame("unknown")} :
          HandleFrame(r, f)
          => /\ UNCHANGED <<active_robot_streams, robot_audio_buffers,
                            pending_power_requests, future, outbound,
                            audio_tasks, sentinel_reply, tool>>
             /\ handler'[r] = "STREAMING"
             /\ handler' = handler
             /\ rpc_done' = rpc_done]_vars

\* A connection in its receive loop, on which a command has been written
\* whose caller is waiting in the table, is where such a frame is handled:
\* the state after handling it is this same state.
C22_Witness ==
    \E r \in Robots : \E t \in Callers :
        /\ handler[r] = "STREAMING"
        /\ r \in active_robot_streams
        /\ tool[t].pc = "awaiting"
        /\ tool[t].robot = r
        /\ tool[t].cmd \in DOMAIN pending_power_requests
        /\ outbound[r] # << >>
        /\ \E f \in {OtherFrame("other_status"), OtherFrame("unknown")} :
              ENABLED HandleFrame(r, f)

\* C23: handling an audio frame hands the flushed bytes to a new task that
\* has not run yet and leaves the handler in its receive loop; while a task
\* spawned for a connection is unfinished, however long, the next frame of
\* that connection can be handled.
C23_ReceiveLoopDoesNotAwaitAudio ==
    /\ [][\A r \in Robots : \A f \in Frames :
            (HandleFrame(r, f) /\ f.type = "audio_chunk")
            => /\ handler'[r] = "STREAMING"
               /\ Len(f.data) > 0
                  => /\ Len(audio_tasks') = Len(audio_tasks) + 1
                     /\ audio_tasks'[Len(audio_tasks')].pc = "spawned"]_vars
    /\ [](\A r \in Robots :
            (/\ handler[r] = "STREAMING"
             /\ \E i \in DOMAIN audio_tasks :
                   /\ audio_tasks[i].robot = r
                   /\ audio_tasks[i].pc \in {"spawned", "processing"})
            => ENABLED HandleFrame(r, OtherFrame("other_status")))

\* The task spawned for an audio frame of a connection has not started, and
\* the handler has already handled the next frame, a sentinel
\* acknowledgement whose response it is writing.
C23_Witness ==
    \E r \in Robots : \E i \in DOMAIN audio_tasks :
        /\ audio_tasks[i].robot = r
        /\ audio_tasks[i].pc = "spawned"
        /\ handler[r] = "SENTINEL_WRITE"
        /\ sentinel_reply[r] # NoValue

\* C24: suspending a get_power_status call in wait_for changes no handler;
\* while the call is suspended every connection that is in its receive loop,
\* the one the command was written on included, can handle the
\* acknowledgement of that command, and handling it on any of them while the
\* future is pending sets the waiter's future.
C24_WaiterDoesNotBlockReceiveLoops ==
    /\ [][\A t \in Callers :
            /\ (tool[t].pc # "awaiting" /\ tool'[t].pc = "awaiting")
               => handler' = handler
            /\ \A r \in Robots : \A m \in Msgs :
                  (/\ tool[t].pc = "awaiting"
                   /\ future[t].state = "pending"
                   /\ HandleFrame(r, AckFrame(NoSession, tool[t].cmd, m)))
                  => /\ future'[t] = [state |-> "result", value |-> m]
                     /\ handler'[r] = "STREAMING"]_vars
    /\ [](\A t \in Callers : \A r \in Robots :
            (tool[t].pc = "awaiting" /\ handler[r] = "STREAMING")
            => ENABLED HandleFrame(r, AckFrame(NoSession, tool[t].cmd, "m1")))

\* A caller is still suspended in wait_for and its future already holds the
\* reply: the acknowledgement was handled while it waited, and both
\* connections are in their receive loops.
C24_Witness ==
    \E t \in Callers :
        /\ tool[t].pc = "awaiting"
        /\ future[t].state = "result"
        /\ tool[t].cmd \in acked
        /\ \A r \in Robots : handler[r] = "STREAMING"

\* C25: every acknowledgement is first offered to the pending table (its
\* command id counts one more resolve call); when resolve returns true the
\* handler does nothing else for it: it stays in its receive loop, prepares
\* and writes no frame and spawns no task.
C25_ResolvedAckConsumed ==
    [][\A r \in Robots : \A f \in AckFrames :
          HandleFrame(r, f)
          => LET res == resolve_pending_power_request(
                            pending_power_requests, future, f.cmd, f.msg)
             IN /\ pending_power_requests' = res.table
                /\ future' = res.futs
                /\ res.ret
                   => /\ handler' = handler
                      /\ handler'[r] = "STREAMING"
                      /\ sentinel_reply' = sentinel_reply
                      /\ outbound' = outbound
                      /\ audio_tasks' = audio_tasks
                      /\ robot_audio_buffers' = robot_audio_buffers]_vars

\* An acknowledgement has resolved a caller's request, and the only frames
\* ever written are the commands of the tools: the handler is in its receive
\* loop with no response in preparation.
C25_Witness ==
    \E t \in Callers : \E r \in Robots :
        /\ tool[t].cmd \in CmdIds
        /\ hist[tool[t].cmd].trues = 1
        /\ future[t].state = "result"
        /\ handler[r] = "STREAMING"
        /\ sentinel_reply[r] = NoValue
        /\ outbound[r] # << >>
        /\ \A k \in DOMAIN outbound[r] : outbound[r][k].kind = "robot_command"

\* C26: handling an acknowledgement that resolves nothing and carries the
\* sentinel command id creates a unit of work for its text payload and
\* leaves the handler in its receive loop, ready for the next frame.
C26_SentinelHandedOff ==
    [][\A r \in Robots : \A f \in AckFrames :
          (/\ f.cmd = INTERACTIVE
           /\ ~resolve_pending_power_request(
                   pending_power_requests, future, f.cmd, f.msg).ret
           /\ HandleFrame(r, f))
          => /\ handler'[r] = "STREAMING"
             /\ Len(audio_tasks') = Len(audio_tasks) + 1]_vars

\* C27: every step of the handler of a connection a (accepting, handling a
\* frame, writing the sentinel response, the end of its stream, a read
\* error, cancellation, cleanup) leaves every other connection b as it was:
\* its registry entry, its audio buffer, its handler, its RPC, its cleanup
\* task and the frames written to it.
C27_ConnectionsIsolated ==
    [][\A a \in Robots : \A b \in Robots \ {a} :
          (\/ Connect(a)
           \/ \E f \in Frames : HandleFrame(a, f)
           \/ SentinelWrite(a)
           \/ StreamExhausted(a)
           \/ ReadError(a)
           \/ RpcTerminate(a)
           \/ Cleanup(a))
          => /\ b \in active_robot_streams' <=> b \in active_robot_streams
             /\ b \in DOMAIN robot_audio_buffers'
                   <=> b \in DOMAIN robot_audio_buffers
             /\ b \in DOMAIN robot_audio_buffers
                   => robot_audio_buffers'[b] = robot_audio_buffers[b]
             /\ handler'[b] = handler[b]
             /\ rpc_done'[b] = rpc_done[b]
             /\ cleanup_task'[b] = cleanup_task[b]
             /\ sentinel_reply'[b] = sentinel_reply[b]
             /\ outbound'[b] = outbound[b]]_vars

\* The handler of one connection has ended with an error and its cleanup has
\* run, while the other connection, accepted and registered with its buffer,
\* is writing a response with its RPC open.
C27_Witness ==
    \E a \in Robots : \E b \in Robots \ {a} :
        /\ handler[a] = "CLOSED"
        /\ ~cancel_logged[a]
        /\ cleanup_task[a].state = "ran"
        /\ a \notin active_robot_streams
        /\ a \notin DOMAIN robot_audio_buffers
        /\ handler[b] = "SENTINEL_WRITE"
        /\ ~rpc_done[b]
        /\ b \in active_robot_streams
        /\ b \in DOMAIN robot_audio_buffers

\* C28: the response of an audio task is written only on the stream of the
\* connection its audio arrived on: a task that finds that connection no
\* longer registered ends without writing, a task writes on no other stream,
\* a frame is added only while the RPC of that connection is not done, and a
\* failed write ends the task and changes no handler.
C28_AudioResponseToOrigin ==
    /\ [](\A i \in DOMAIN audio_tasks :
            /\ audio_tasks[i].ctx \in {"None", audio_tasks[i].robot}
            /\ audio_tasks[i].pc = "no_stream" => audio_tasks[i].ctx = "None"
            /\ audio_tasks[i].pc \in {"processing", "responded", "write_failed"}
               => audio_tasks[i].ctx = audio_tasks[i].robot)
    /\ [][\A i \in DOMAIN audio_tasks :
            /\ AudioTaskStart(i)
               => /\ outbound' = outbound
                  /\ audio_tasks[i].robot \notin active_robot_streams
                     => audio_tasks'[i].pc = "no_stream"
            /\ AudioTaskRespond(i)
               => LET r == audio_tasks[i].robot
                  IN /\ \A x \in Robots \ {r} : outbound'[x] = outbound[x]
                     /\ handler' = handler
                     /\ IF outbound'[r] # outbound[r]
                        THEN /\ ~rpc_done[r]
                             /\ outbound'[r] = Append(outbound[r],
                                   TextResponse(audio_tasks[i].session, "audio"))
                             /\ audio_tasks'[i].pc = "responded"
                        ELSE audio_tasks'[i].pc = "write_failed"]_vars
    /\ [][\A r \in Robots :
            (Len(outbound'[r]) > Len(outbound[r])
               /\ outbound'[r][Len(outbound'[r])].by = "audio")
            => \E i \in DOMAIN audio_tasks :
                  audio_tasks[i].robot = r /\ AudioTaskRespond(i)]_vars

\* The audio of one connection has been answered on that connection, while
\* nothing was written on the other connection, which is registered and in
\* its receive loop.
C28_Witness ==
    \E r \in Robots : \E q \in Robots \ {r} : \E i \in DOMAIN audio_tasks :
        /\ audio_tasks[i].robot = r
        /\ audio_tasks[i].pc = "responded"
        /\ \E k \in DOMAIN outbound[r] : outbound[r][k].by = "audio"
        /\ outbound[q] = << >>
        /\ handler[q] = "STREAMING"
        /\ q \in active_robot_streams

\* C29: the frames of a connection take effect one after the other: the
\* step that handles a frame appends its bytes to what was received, hands
\* the flushed bytes to a task placed after the tasks of all earlier frames
\* and makes its resolve attempt, all before the next frame is read; while
\* the response to a sentinel acknowledgement is being written no further
\* frame of that connection is handled, and the next step of the handler is
\* that write or the end of the connection.
C29_FramesInArrivalOrder ==
    /\ [](\A r \in Robots :
            sentinel_reply[r] # NoValue <=> handler[r] = "SENTINEL_WRITE")
    /\ [][\A r \in Robots :
            /\ \A f \in Frames :
                  HandleFrame(r, f)
                  => /\ handler[r] = "STREAMING"
                     /\ sentinel_reply[r] = NoValue
                     /\ received'[r] = received[r] \o f.data
                     /\ \A i \in DOMAIN audio_tasks :
                           audio_tasks'[i] = audio_tasks[i]
                     /\ Len(audio_tasks') > Len(audio_tasks)
                        => /\ audio_tasks'[Len(audio_tasks')].robot = r
                           /\ audio_tasks'[Len(audio_tasks')].data
                                 = robot_audio_buffers[r] \o f.data
                     /\ f.type = "command_ack"
                        => pending_power_requests'
                              = resolve_pending_power_request(
                                   pending_power_requests, future,
                                   f.cmd, f.msg).table
            /\ handler[r] = "SENTINEL_WRITE"
               => /\ ~(\E f \in Frames : HandleFrame(r, f))
                  /\ received'[r] = received[r]
                  /\ r \in DOMAIN robot_audio_buffers'
                  /\ robot_audio_buffers'[r] = robot_audio_buffers[r]
                  /\ \A i \in DOMAIN audio_tasks' :
                        audio_tasks'[i].robot = r => i \in DOMAIN audio_tasks
                  /\ handler'[r] # "SENTINEL_WRITE"
                     => SentinelWrite(r) \/ RpcTerminate(r)]_vars

\* The audio frame of a connection was handled first and its task has
\* written its response; the sentinel acknowledgement that came after it has
\* been handled and its response is still being written.
C29_Witness ==
    \E r \in Robots : \E i \in DOMAIN audio_tasks :
        /\ handler[r] = "SENTINEL_WRITE"
        /\ sentinel_reply[r] = ClientSession
        /\ audio_tasks[i].robot = r
        /\ audio_tasks[i].pc = "responded"
        /\ received[r] = audio_tasks[i].data
        /\ outbound[r] = <<TextResponse(audio_tasks[i].session, "audio")>>

\* C30: in every reachable state the registry and the audio buffer map have
\* the same keys: a connection whose handler is running (so before any of
\* its frames is handled) is in both, with a buffer that is empty between
\* frames, and once its cleanup has run it is in neither.
C30_RegistryAndBuffersSameKeys ==
    /\ active_robot_streams = DOMAIN robot_audio_buffers
    /\ \A r \in Robots :
          /\ handler[r] \in {"STREAMING", "SENTINEL_WRITE", "DRAINING"}
             => /\ r \in active_robot_streams
                /\ r \in DOMAIN robot_audio_buffers
                /\ robot_audio_buffers[r] = << >>
          /\ handler[r] = "NOT_CONNECTED"
             => r \notin active_robot_streams \cup DOMAIN robot_audio_buffers
          /\ cleanup_task[r].state = "ran"
             => r \notin active_robot_streams \cup DOMAIN robot_audio_buffers

\* One connection is registered with its buffer and has received audio; the
\* other was registered, has ended, and its cleanup has removed it from both
\* maps.
C30_Witness ==
    \E r \in Robots : \E q \in Robots \ {r} :
        /\ active_robot_streams = {r}
        /\ DOMAIN robot_audio_buffers = {r}
        /\ received[r] # << >>
        /\ handler[r] = "STREAMING"
        /\ handler[q] = "CLOSED"
        /\ cleanup_task[q].state = "ran"

\* C31: an acknowledgement resolves a pending request only when it is
\* handled on the connection the command of that request was written to.
C31_AckOnlyFromOwnConnection ==
    [][\A r \in Robots : \A f \in AckFrames :
          (/\ HandleFrame(r, f)
           /\ resolve_pending_power_request(
                  pending_power_requests, future, f.cmd, f.msg).ret)
          => \E t \in Callers :
                /\ tool[t].cmd = f.cmd
                /\ tool[t].robot = r]_vars

\* C32: whether the write of the response to a sentinel acknowledgement
\* succeeds or fails, the handler is back in its receive loop afterwards,
\* with its RPC open, so that later frames of the stream are handled.
C32_SentinelWriteFailureContained ==
    [][\A r \in Robots :
          SentinelWrite(r)
          => /\ handler'[r] = "STREAMING"
             /\ ~rpc_done'[r]]_vars

\* C33: between frames the audio buffer of every registered connection is
\* empty; handling an audio chunk with at least one byte adds exactly one
\* task, for that connection, carrying exactly the bytes of that chunk, and
\* handling an empty chunk adds no task and leaves the buffer empty.
C33_FlushEveryChunk ==
    /\ [](\A r \in DOMAIN robot_audio_buffers : robot_audio_buffers[r] = << >>)
    /\ [][\A r \in Robots : \A f \in Frames :
            (HandleFrame(r, f) /\ f.type = "audio_chunk")
            => IF Len(f.data) > 0
               THEN /\ audio_tasks' = Append(audio_tasks,
                                             audio_tasks'[Len(audio_tasks')])
                    /\ audio_tasks'[Len(audio_tasks')].robot = r
                    /\ audio_tasks'[Len(audio_tasks')].data = f.data
                    /\ audio_tasks'[Len(audio_tasks')].pc = "spawned"
               ELSE /\ audio_tasks' = audio_tasks
                    /\ robot_audio_buffers' = robot_audio_buffers]_vars

\* A connection in its receive loop has been sent one chunk with bytes: one
\* task carries those bytes, the buffer is empty, and an empty chunk can be
\* handled next.
C33_Witness ==
    \E r \in Robots : \E i \in DOMAIN audio_tasks :
        /\ handler[r] = "STREAMING"
        /\ robot_audio_buffers[r] = << >>
        /\ audio_tasks[i].robot = r
        /\ audio_tasks[i].data \in AudioData \ {<< >>}
        /\ \A j \in DOMAIN audio_tasks : audio_tasks[j].robot = r => j = i
        /\ ENABLED HandleFrame(r, AudioFrame(NoSession, << >>))

\* C34: a tool other than get_power_status never adds a table entry or a
\* future: its call, its write and its return leave the table and the
\* futures as they were, and it returns Sent as soon as its frame has been
\* written; an acknowledgement carrying the command id of such a tool
\* resolves nothing, changes neither the table nor the futures and is
\* discarded without a response.
C34_FireAndForget ==
    /\ [](\A t \in Callers :
            tool[t].kind # "get_power_status"
            => /\ future[t] = NoFuture
               /\ tool[t].cmd \notin DOMAIN pending_power_requests
               /\ tool[t].pc \notin {"awaiting", "cancel_wait"})
    /\ [][\A t \in Callers :
            /\ \A kind \in ToolKinds \ {"get_power_status"} :
                  ToolCall(t, kind, TRUE, "r1", ToolSession)
                  => /\ pending_power_requests' = pending_power_requests
                     /\ future' = future
            /\ tool[t].kind # "get_power_status"
               => /\ ToolWrite(t)
                     => /\ pending_power_requests' = pending_power_requests
                        /\ future' = future
                  /\ ToolWritten(t)
                     => /\ tool'[t].pc = "done"
                        /\ tool'[t].result = "Sent"
                        /\ pending_power_requests' = pending_power_requests
                        /\ future' = future
                  /\ \A r \in Robots : \A m \in Msgs :
                        (tool[t].cmd \in CmdIds
                           /\ HandleFrame(r, AckFrame(NoSession, tool[t].cmd, m)))
                        => /\ ~resolve_pending_power_request(
                                  pending_power_requests, future,
                                  tool[t].cmd, m).ret
                           /\ pending_power_requests' = pending_power_requests
                           /\ future' = future
                           /\ outbound' = outbound
                           /\ handler' = handler]_vars

\* A fire-and-forget tool has returned Sent and the acknowledgement of its
\* command has been handled without resolving anything, while the pending
\* request of a get_power_status call is still in the table, untouched.
C34_Witness ==
    \E t \in Callers : \E u \in Callers \ {t} :
        /\ tool[t].kind # "get_power_status"
        /\ tool[t].pc = "done"
        /\ tool[t].result = "Sent"
        /\ tool[t].cmd \in acked
        /\ hist[tool[t].cmd] = [sets |-> 0, pops |-> 0, trues |-> 0]
        /\ tool[u].kind = "get_power_status"
        /\ tool[u].pc = "awaiting"
        /\ tool[u].cmd \in DOMAIN pending_power_requests
        /\ future[u].state = "pending"

C36_NoStreamNoProcessing ==
    /\ [](\A i \in DOMAIN audio_tasks :
            audio_tasks[i].pc = "no_stream"
            => /\ audio_tasks[i].ctx = "None"
               /\ ~ENABLED AudioTaskStart(i)
               /\ ~ENABLED AudioTaskRespond(i))
    /\ [][\A i \in DOMAIN audio_tasks :
            /\ (AudioTaskStart(i)
                  /\ audio_tasks[i].robot \notin active_robot_streams)
               => /\ audio_tasks'[i].pc = "no_stream"
                  /\ audio_tasks'[i].ctx = "None"
                  /\ outbound' = outbound
                  /\ UNCHANGED <<active_robot_streams, robot_audio_buffers,
                                 handler, pending_power_requests>>
            /\ audio_tasks[i].pc = "no_stream"
               => audio_tasks'[i] = audio_tasks[i]]_vars

\* The connection of an audio task ended and was cleaned up before the task
\* started: the task has ended without a context and nothing was ever
\* written on that connection, while the other connection is still served.
C36_Witness ==
    \E i \in DOMAIN audio_tasks : \E q \in Robots :
        /\ audio_tasks[i].pc = "no_stream"
        /\ audio_tasks[i].ctx = "None"
        /\ audio_tasks[i].data # << >>
        /\ outbound[audio_tasks[i].robot] = << >>
        /\ q # audio_tasks[i].robot
        /\ handler[q] = "STREAMING"
\* ---------------------------------------------------------------------------
\* C37: the mock robot client gives up after max_retries consecutive gRPC
\* failures: once that many failures have followed one another with no
\* message from the server in between, the shutdown event is set and the
\* client is not connecting or connected again.
\* run_robot_client sets retry_count to 0 at the top of every pass of its
\* loop (line 172), so the test of line 241 always sees 0 and the client
\* reconnects for ever.
C37_MaxRetriesStopsClient ==
    consecutive_failures >= max_retries =>
        /\ shutdown_event
        /\ client_pc \notin {"loop", "streaming"}

\* ---------------------------------------------------------------------------
\* C38: the generator of a stream that is open, with no shutdown signalled,
\* is still forwarding: it has not ended, whatever the teardown of an
\* earlier connection left on the shared queue.
\* The None that the finally block puts on the queue (line 278) stays there
\* when the generator of the ended stream no longer reads the queue, and
\* the generator of the next stream takes it and stops (lines 137-139).
C38_GeneratorSurvivesReconnect ==
    client_pc = "streaming" /\ ~shutdown_event => message_generator # "exited"

====
